---- MODULE Spec2Model ----
(***************************************************************************)
(* StarryPy (Project Apophis): the hook dispatcher, the chat-command       *)
(* dispatcher, the relay step and the parsed-packet cache, as state        *)
(* machines translated from src/starrypy.                                  *)
(*                                                                         *)
(* Spec       one relay iteration at a time: read_packet, hook_event       *)
(*            (parse, the handler chain, build_edits), write_to_*.         *)
(* SpecHooks  the same iteration with every list of plugin hooks.          *)
(* SpecCache  parse_packet, CachedPacket and reap_packets over a heap of   *)
(*            dict objects, with two messages in flight.                   *)
(* SpecRelay  one session at the level of bytes: the two sockets, the      *)
(*            framing of read_packet and build_packet, the two listeners   *)
(*            and the ways they end.                                       *)
(***************************************************************************)
EXTENDS Integers, Sequences, FiniteSets, TLC

VARIABLES
    plugin_hooks,   \* the @EventHook methods of the loaded plugins, in load order
    event_hooks,    \* PluginManager.event_hooks: packet type -> list of hooks
    commands,       \* CommandDispatcher.commands: name -> command
    pc,             \* where the relay task stands
    wire,           \* the frame as the listener read it from its socket
    packet,         \* the Packet of the current relay iteration
    idx,            \* position of hook_event's for loop in the chain
    send_ahead,     \* hook_event's local send_ahead
    invoked,        \* the hooks called in this dispatch, in call order
    returned,       \* what each of them did: "True", "False", "None" or "raise"
    cmd_result,     \* what the command run by command_check did ("" if none ran)
    server_out,     \* frames written to the upstream socket in this iteration
    client_out,     \* frames written to the client socket in this iteration
    task,           \* the listener that read the packet
    alive,          \* the listeners that have not ended
    cache,          \* parser._cache: hash of the original bytes -> CachedPacket
    heap,           \* the dict objects parsing has created
    msg,            \* SpecCache: the Packet each relay task is working on
    hits,           \* per cache key: get() calls since the entry was created
    passes,         \* per cache key: reaper passes since the entry was created
    nread,          \* frames read so far
    reaper_task,    \* PluginManager.reaper_task has been created
    sock,           \* SpecRelay: per listener, the socket it reads: bytes unread, state
    relay,          \* SpecRelay: per listener, where it stands and its Packet
    readlog,        \* per listener: the frames read_packet returned, in order
    writes,         \* per socket: the byte strings written to it, in order
    teardown,       \* how often die and close_out were called for the session
    nsent,          \* chunks the peers have sent so far
    codec,          \* SpecCodec: the value a codec function is applied to, and the results
    registered,     \* SpecRegister: the last register call, and the names installed directly
    plugin_classes, \* SpecLoader: the plugin classes found in the plugin folders
    plugins,        \* PluginManager.plugins: name -> plugin instance
    pk,             \* SpecCopy: a Packet and its copy
    sending,        \* SpecSend: the send_message call under way and its arguments
    writers,        \* SpecWrite: per task, the frames it has to write and where it stands
    transport       \* per socket: the bytes written to the StreamWriter, buffered and sent

\* The state of the parsed-packet cache and of the tasks that use it
cacheVars == <<cache, heap, msg, hits, passes, nread, reaper_task>>

\* The state of one session's sockets and relay tasks
relayVars == <<sock, relay, readlog, writes, teardown, nsent>>

\* The state of the specifications that exercise one unit by itself
unitVars == <<codec, registered, plugin_classes, plugins, pk, sending, writers, transport>>

\* The state of the writers of the sockets, for the other unit specifications
sendVars == <<sending, writers, transport>>

vars == <<plugin_hooks, event_hooks, commands, pc, wire, packet, idx, send_ahead,
          invoked, returned, cmd_result, server_out, client_out, task, alive,
          cacheVars, relayVars, unitVars>>

(***************************************************************************)
(* Bounds of the model.                                                    *)
(***************************************************************************)
MaxTextLen == 3        \* longest chat text read from the wire
MaxPluginHooks == 2    \* most plugin hooks loaded at startup
MaxReads == 3          \* most frames read in SpecCache
MaxSent == 2           \* most frames the peers send in SpecRelay
MaxJsonDepth == 2      \* deepest nesting of the TaggedJson values in SpecCodec
MaxRegisters == 3      \* most commands registered in SpecRegister
MaxPluginCalls == 3    \* most register_plugin and deregister_plugin calls in SpecDeregister
MaxMessages == 2       \* most messages handed to one send_message call in SpecSend
MaxWrites == 3         \* most frames written to the sockets in SpecWrite
MaxParses == 3         \* most packets handed to parse_packet in SpecParse

(***************************************************************************)
(* Text: a str is a sequence of characters.                                *)
(***************************************************************************)
Chars == {"/", " ", "a", "A", "b"}

Texts == UNION {[1..n -> Chars] : n \in 0..MaxTextLen}

\* str.lower() on one character
LowerChar(c) == IF c = "A" THEN "a" ELSE c

\* str.lower()
lower(s) == [i \in 1..Len(s) |-> LowerChar(s[i])]

\* str.startswith(prefix)
startswith(s, prefix) ==
    /\ Len(prefix) <= Len(s)
    /\ SubSeq(s, 1, Len(prefix)) = prefix

\* s[n:]
DropPrefix(s, n) == SubSeq(s, n + 1, Len(s))

IsSpace(c) == c = " "

\* str.split() with no argument: the maximal runs of non-whitespace
RECURSIVE split(_)
split(s) ==
    IF s = <<>> THEN <<>>
    ELSE IF IsSpace(s[1]) THEN split(Tail(s))
    ELSE LET rest == split(Tail(s))
         IN  IF Len(s) > 1 /\ ~IsSpace(s[2])
             THEN <<(<<s[1]>> \o rest[1])>> \o Tail(rest)
             ELSE <<(<<s[1]>>)>> \o rest

(***************************************************************************)
(* Packet types and the codec registry (parse_map).                        *)
(***************************************************************************)
PacketTypes == {"CHAT_SENT", "WORLD_START", "STEP_UPDATE"}

\* parse_map[type][0] is a decoder
HasDecoder(type) == type \in {"CHAT_SENT", "WORLD_START", "STEP_UPDATE"}

\* parse_map[type][1] is an encoder (WORLD_START and STEP_UPDATE map to None)
HasEncoder(type) == type = "CHAT_SENT"

Directions == {"TO_SERVER", "TO_CLIENT"}

\* A frame as read from the wire: its type and its body. ok = FALSE is a body
\* the decoder of the type cannot read.
Frames ==
    {[type |-> "CHAT_SENT", ok |-> TRUE, text |-> t] : t \in Texts}
    \cup {[type |-> ty, ok |-> TRUE, text |-> <<>>] : ty \in {"WORLD_START", "STEP_UPDATE"}}
    \cup {[type |-> ty, ok |-> FALSE, text |-> <<>>] : ty \in {"CHAT_SENT", "WORLD_START"}}

\* The dict {} a Packet starts with, and that a failed parse leaves.
EmptyDict == [keys |-> {}, text |-> <<>>]

\* parse_funcs[0](data_stream, direction) on a body the decoder can read:
\* the keys of the dict, and the value under "text".
decode(frame) ==
    CASE frame.type = "CHAT_SENT"   -> [keys |-> {"text", "send_mode"}, text |-> frame.text]
      [] frame.type = "WORLD_START" -> [keys |-> {"template_data"}, text |-> <<>>]
      [] OTHER                      -> [keys |-> {"remote_step"}, text |-> <<>>]

\* A parse that keeps what it decoded before the decoder raised
parse_partial(frame) ==
    IF HasDecoder(frame.type) /\ frame.ok THEN decode(frame)
    ELSE [keys |-> {"partial"}, text |-> <<>>]

\* What packet.parse() leaves in parsed_data, as hook_event sees it: the
\* decoded dict, or {} when the decoder raised (IndexError is turned into {}
\* by parse_packet; any other error reaches hook_event, which logs it and
\* goes on with the {} the constructor set).
parse(frame) ==
    IF HasDecoder(frame.type) /\ frame.ok THEN decode(frame) ELSE EmptyDict

\* Packet.__init__ as read_packet calls it
Packet(frame, direction) ==
    [type |-> frame.type, direction |-> direction, original_data |-> frame,
     parsed_data |-> EmptyDict, edited_data |-> EmptyDict]

\* No frame read yet, and the Packet that stands for it.
NoFrame == [type |-> "STEP_UPDATE", ok |-> FALSE, text |-> <<>>]

NoPacket == Packet(NoFrame, "TO_SERVER")

(***************************************************************************)
(* The hook registry.                                                      *)
(***************************************************************************)
PluginNames == <<"plugin_1", "plugin_2", "plugin_3", "plugin_4">>

\* The priorities a plugin hook is given in the model: below, equal to and
\* (with 100) above the core hooks' 1 and 99.
Priorities == {1, 99, 100}

\* The event hooks the loaded plugins bring, in plugins.values() order.
PluginHookLists ==
    UNION {[1..n -> [event : PacketTypes, priority : Priorities]] : n \in 0..MaxPluginHooks}

\* The @EventHook methods of additional_packet_hook_locations, in the order
\* detect_event_hooks meets them: player manager, world manager, command
\* dispatcher.
CoreHooks ==
    << [owner |-> "player_manager", name |-> "player_arrives",
        event |-> "WORLD_START", priority |-> 1],
       [owner |-> "world_manager", name |-> "_get_celestial_world",
        event |-> "WORLD_START", priority |-> 99],
       [owner |-> "command_dispatcher", name |-> "command_check",
        event |-> "CHAT_SENT", priority |-> 99] >>

\* Everything detect_event_hooks appends, in append order: plugins first.
Inserted(ph) ==
    [i \in 1..Len(ph) |-> [owner |-> "plugin", name |-> PluginNames[i],
                           event |-> ph[i].event, priority |-> ph[i].priority]]
    \o CoreHooks

Reverse(s) == [i \in 1..Len(s) |-> s[Len(s) + 1 - i]]

\* One step of a stable ascending sort: h goes behind every entry whose key
\* is not greater than its own.
RECURSIVE InsertStable(_, _)
InsertStable(sorted, h) ==
    IF sorted = <<>> THEN <<h>>
    ELSE IF sorted[1].priority <= h.priority
         THEN <<sorted[1]>> \o InsertStable(Tail(sorted), h)
         ELSE <<h>> \o sorted

RECURSIVE StableSortAsc(_)
StableSortAsc(s) ==
    IF s = <<>> THEN <<>>
    ELSE InsertStable(StableSortAsc(SubSeq(s, 1, Len(s) - 1)), s[Len(s)])

\* A descending sort that is not stable: sorted ascending, then reversed
sort_reverse_unstable(s) == Reverse(StableSortAsc(s))

\* hooks.sort(key=lambda x: x.priority, reverse=True): list.sort reverses the
\* list, sorts it stably in ascending order and reverses it again.
sort_reverse(s) == Reverse(StableSortAsc(Reverse(s)))

\* PluginManager.detect_event_hooks
detect_event_hooks(eh, ph) ==
    [e \in PacketTypes |->
        sort_reverse(eh[e] \o SelectSeq(Inserted(ph), LAMBDA h : h.event = e))]

(***************************************************************************)
(* The command dispatcher.                                                 *)
(***************************************************************************)
\* default_config["command_prefix"]
command_prefix == <<"/">>

\* The @Command methods of the loaded plugins, in getmembers order, as in
\* plugins/info_commands.py: _about (no syntax) and _help (syntax
\* "(command)"). Names are spelled over Chars: "A" stands for About, "b"
\* for Help.
PluginCommands ==
    << [name |-> <<"A">>, aliases |-> <<>>, syntax |-> "", perms |-> {},
        priority |-> 0, owner |-> "Info"],
       [name |-> <<"b">>, aliases |-> <<>>, syntax |-> "(command)", perms |-> {},
        priority |-> 0, owner |-> "Info"] >>

\* A registrar that lets an alias overwrite on priority like any other name
register_name_priority_only(table, fn, name, is_alias) ==
    IF name \in DOMAIN table
    THEN IF fn.priority >= table[name].priority
         THEN [table EXCEPT ![name] = fn]
         ELSE table
    ELSE table @@ (name :> fn)

\* The body of CommandDispatcher.register before the aliases
register_name(table, fn, name, is_alias) ==
    IF name \in DOMAIN table
    THEN IF fn.priority >= table[name].priority /\ ~is_alias
         THEN [table EXCEPT ![name] = fn]
         ELSE table
    ELSE table @@ (name :> fn)

RECURSIVE register_aliases(_, _, _)
register_aliases(table, fn, aliases) ==
    IF aliases = <<>> THEN table
    ELSE register_aliases(register_name(table, fn, lower(aliases[1]), TRUE),
                          fn, Tail(aliases))

\* CommandDispatcher.register
register(table, fn, name, is_alias) ==
    LET t1 == register_name(table, fn, name, is_alias)
    IN  IF ~is_alias THEN register_aliases(t1, fn, fn.aliases) ELSE t1

\* A register_plugin that indexes each command by its name as declared
RECURSIVE register_plugin_as_spelled(_, _)
register_plugin_as_spelled(table, mths) ==
    IF mths = <<>> THEN table
    ELSE register_plugin_as_spelled(register(table, mths[1], mths[1].name, FALSE),
                                    Tail(mths))

\* CommandDispatcher.register_plugin, for the commands of all plugins
RECURSIVE register_plugin(_, _)
register_plugin(table, mths) ==
    IF mths = <<>> THEN table
    ELSE register_plugin(register(table, mths[1], lower(mths[1].name), FALSE),
                         Tail(mths))

\* What the body of a command does when awaited.
CommandOutcomes == {"return", "CommandSyntaxError", "UserPermissionError", "Exception"}

\* A chat message: the format string and the command it names.
Message(fmt, cmd) == [fmt |-> fmt, cmd |-> cmd, is_str |-> TRUE]

\* An exception object handed to send_message in place of a str.
ExceptionObject == [fmt |-> "", cmd |-> <<>>, is_str |-> FALSE]

\* Client.send_message: from_parsed builds a CHAT_RECEIVED frame and
\* write_to_client writes it; a message that is no str makes the build raise,
\* which send_message logs, and nothing is written.
send_message(out, message) ==
    IF message.is_str
    THEN Append(out, [type |-> "CHAT_RECEIVED", ok |-> TRUE, text |-> <<>>,
                      message |-> message])
    ELSE out

\* Command.__call__.wrapped: the permission check in front of the body.
\* user_perms is the empty set.
wrapped(fn, outcome) ==
    IF ~(fn.perms \subseteq {}) THEN "UserPermissionError" ELSE outcome

\* run_command without its last clause, 'except Exception': any other error
\* of the command body leaves run_command.
run_command_no_catch_all(table, command, outcome, out) ==
    IF command \notin DOMAIN table THEN [raised |-> FALSE, out |-> out]
    ELSE LET fn == table[command]
             res == wrapped(fn, outcome)
         IN  CASE res = "return" ->
                    [raised |-> FALSE,
                     out |-> send_message(out, Message("(command output)", fn.name))]
               [] res = "CommandSyntaxError" ->
                    [raised |-> FALSE,
                     out |-> IF fn.syntax # ""
                             THEN send_message(out,
                                      Message("{err}\nSyntax: {deco}{fn.name} {fn.syntax}.", fn.name))
                             ELSE send_message(out, ExceptionObject)]
               [] res = "UserPermissionError" ->
                    [raised |-> FALSE,
                     out |-> send_message(out,
                                 Message("You do not have permission to use this command.{err}", fn.name))]
               [] OTHER -> [raised |-> TRUE, out |-> out]

\* CommandDispatcher.run_command: what it writes to the client, and whether
\* an exception leaves it.
run_command(table, command, outcome, out) ==
    IF command \notin DOMAIN table THEN [raised |-> FALSE, out |-> out]
    ELSE LET fn == table[command]
             res == wrapped(fn, outcome)
         IN  CASE res = "return" ->
                    [raised |-> FALSE,
                     out |-> send_message(out, Message("(command output)", fn.name))]
               [] res = "CommandSyntaxError" ->
                    [raised |-> FALSE,
                     out |-> IF fn.syntax # ""
                             THEN send_message(out,
                                      Message("{err}\nSyntax: {deco}{fn.name} {fn.syntax}.", fn.name))
                             ELSE send_message(out, ExceptionObject)]
               [] res = "UserPermissionError" ->
                    [raised |-> FALSE,
                     out |-> send_message(out,
                                 Message("You do not have permission to use this command.{err}", fn.name))]
               [] OTHER ->
                    [raised |-> FALSE,
                     out |-> send_message(out,
                                 Message("Error occurred while running command.", fn.name))]

\* The result of one hook call: what it returned or "raise", what the client
\* socket holds afterwards, the pending edits it left, the command it ran.
HookResult(ret, out, edits, cmd) == [ret |-> ret, out |-> out, edits |-> edits, cmd |-> cmd]

\* command_check looking the token up as typed, without .lower()
command_check_no_lower(p, table, outcome, out) ==
    LET deco == command_prefix IN
    IF "text" \notin p.parsed_data.keys
    THEN HookResult("raise", out, p.edited_data, "")
    ELSE LET content == p.parsed_data.text IN
         IF startswith(content, deco)
         THEN LET tokens == split(DropPrefix(content, Len(deco))) IN
              IF tokens = <<>>
              THEN HookResult("raise", out, p.edited_data, "")
              ELSE LET cmd == tokens[1] IN
                   IF cmd \in DOMAIN table
                   THEN LET r == run_command(table, cmd, outcome, out)
                        IN  HookResult(IF r.raised THEN "raise" ELSE "False",
                                       r.out, p.edited_data, wrapped(table[cmd], outcome))
                   ELSE HookResult("False",
                            send_message(out,
                                Message("Command {cmd} does not exist. Try {deco}help for a list of commands.", cmd)),
                            p.edited_data, "")
         ELSE HookResult("False", out, p.edited_data, "")

\* CommandDispatcher.command_check
command_check(p, table, outcome, out) ==
    LET deco == command_prefix IN
    IF "text" \notin p.parsed_data.keys
    THEN HookResult("raise", out, p.edited_data, "")            \* KeyError
    ELSE LET content == p.parsed_data.text IN
         IF startswith(content, deco)
         THEN LET tokens == split(DropPrefix(content, Len(deco))) IN
              IF tokens = <<>>
              THEN HookResult("raise", out, p.edited_data, "")  \* IndexError
              ELSE LET cmd == lower(tokens[1]) IN
                   IF cmd \in DOMAIN table
                   THEN LET r == run_command(table, cmd, outcome, out)
                        IN  HookResult(IF r.raised THEN "raise" ELSE "False",
                                       r.out, p.edited_data, wrapped(table[cmd], outcome))
                   ELSE HookResult("False",
                            send_message(out,
                                Message("Command {cmd} does not exist. Try {deco}help for a list of commands.", cmd)),
                            p.edited_data, "")
         ELSE HookResult("False", out, p.edited_data, "")

(***************************************************************************)
(* Hooks as callables.                                                     *)
(***************************************************************************)
\* What a plugin's hook may give back: a bool, nothing, or an exception.
PluginReturns == {"True", "False", "None", "raise"}

\* The edit a plugin hook may leave in packet.edited_data.
PluginEdit(p) ==
    IF p.type = "CHAT_SENT" THEN [keys |-> {"text"}, text |-> <<"b">>]
    ELSE [keys |-> {"edited"}, text |-> <<>>]

\* The possible results of awaiting func(packet, client) for one hook.
HookResults(h, p, table, out) ==
    CASE h.name = "command_check" ->
            {command_check(p, table, o, out) : o \in CommandOutcomes}
      [] h.owner \in {"player_manager", "world_manager"} ->
            \* player_arrives, _get_celestial_world: both index
            \* parsed_data["template_data"] and then use client.player and
            \* the database; they return True or raise.
            IF "template_data" \in p.parsed_data.keys
            THEN {HookResult(r, out, p.edited_data, "") : r \in {"True", "raise"}}
            ELSE {HookResult("raise", out, p.edited_data, "")}
      [] OTHER ->
            {HookResult(r, out, e, "") : r \in PluginReturns,
                                         e \in {p.edited_data, PluginEdit(p)}}

\* A dispatch that parses whatever the type
HasHooks_always(eh, type) == TRUE

\* 'if self.event_hooks[event]:' a non-empty list is true
HasHooks(eh, type) == eh[type] # <<>>

\* Python truth value of what a hook returned
Truthy(ret) == ret = "True"

\* A loop whose except clause vetoes: an exception clears send_ahead
update_send_ahead_raise_vetoes(sa, ret) == IF ~Truthy(ret) THEN FALSE ELSE sa

\* hook_event's 'if not (await func(packet, client)): send_ahead = False',
\* with the except clause leaving send_ahead alone
update_send_ahead(sa, ret) ==
    IF ret = "raise" THEN sa
    ELSE IF ~Truthy(ret) THEN FALSE ELSE sa

\* The loop leaving at the first veto
next_hook_break(i, ret, n) == IF ret = "False" THEN n + 1 ELSE i + 1

\* The for loop of hook_event goes to the next hook whatever the last did.
next_hook(i, ret, n) == i + 1

\* The loop without its try/except: the exception leaves hook_event
after_hook_propagate(ret) == IF ret = "raise" THEN "raised" ELSE "hooks"

\* 'except Exception' inside the loop: the loop goes on. ("raised" would be
\* the exception leaving hook_event.)
after_hook(ret) == "hooks"

\* dict.update
update(d, e) ==
    [keys |-> d.keys \cup e.keys,
     text |-> IF "text" \in e.keys THEN e.text ELSE d.text]

\* build_packet succeeds: there is an encoder and it finds its keys.
CanBuild(type, d) ==
    /\ HasEncoder(type)
    /\ {"text", "send_mode"} \subseteq d.keys

\* build_packet: original_data recomposed from the parsed data
build(p) == [p EXCEPT !.original_data = [type |-> p.type, ok |-> TRUE, text |-> p.parsed_data.text]]

Tasks == {"server_listener", "client_listener"}

\* The direction read_packet stamps on what each listener reads.
DirectionOf(t) == IF t = "server_listener" THEN "TO_SERVER" ELSE "TO_CLIENT"

\* An exception that leaves hook_event ends the listener; server_listener's
\* finally clause cancels client_loop as well.
Ended(t) == IF t = "server_listener" THEN Tasks ELSE {t}

(***************************************************************************)
(* Actions.                                                                *)
(***************************************************************************)
\* PluginManager.__init__ / load_all_plugins: hooks and commands collected
load_all_plugins ==
    /\ pc = "boot"
    /\ event_hooks' = detect_event_hooks(event_hooks, plugin_hooks)
    /\ commands' = register_plugin(commands, PluginCommands)
    /\ pc' = "idle"
    /\ UNCHANGED <<plugin_hooks, wire, packet, idx, send_ahead, invoked, returned,
                   cmd_result, server_out, client_out, task, alive>>
    /\ UNCHANGED <<cacheVars, relayVars, unitVars>>

\* A listener reads the next frame of its socket.
read_packet(frames) ==
    /\ pc = "idle"
    /\ \E t \in alive, frame \in frames :
          /\ task' = t
          /\ wire' = frame
          /\ packet' = Packet(frame, DirectionOf(t))
    /\ pc' = "hook_event"
    /\ UNCHANGED <<plugin_hooks, event_hooks, commands, idx, send_ahead, invoked,
                   returned, cmd_result, server_out, client_out, alive>>
    /\ UNCHANGED <<cacheVars, relayVars, unitVars>>

\* hook_event up to the for loop
hook_event_enter ==
    /\ pc = "hook_event"
    /\ send_ahead' = TRUE
    /\ IF HasHooks(event_hooks, packet.type)
       THEN /\ packet' = [packet EXCEPT !.parsed_data = parse(packet.original_data)]
            /\ idx' = 1
            /\ pc' = "hooks"
       ELSE /\ pc' = "write"
            /\ UNCHANGED <<packet, idx>>
    /\ UNCHANGED <<plugin_hooks, event_hooks, commands, wire, invoked, returned,
                   cmd_result, server_out, client_out, task, alive>>
    /\ UNCHANGED <<cacheVars, relayVars, unitVars>>

\* One turn of hook_event's for loop
call_hook ==
    /\ pc = "hooks"
    /\ idx <= Len(event_hooks[packet.type])
    /\ LET chain == event_hooks[packet.type]
           func == chain[idx]
       IN  \E r \in HookResults(func, packet, commands, client_out) :
              /\ send_ahead' = update_send_ahead(send_ahead, r.ret)
              /\ client_out' = r.out
              /\ packet' = [packet EXCEPT !.edited_data = r.edits]
              /\ invoked' = Append(invoked, func)
              /\ returned' = Append(returned, r.ret)
              /\ cmd_result' = IF r.cmd # "" THEN r.cmd ELSE cmd_result
              /\ idx' = next_hook(idx, r.ret, Len(chain))
              /\ pc' = after_hook(r.ret)
    /\ UNCHANGED <<plugin_hooks, event_hooks, commands, wire, server_out, task, alive>>
    /\ UNCHANGED <<cacheVars, relayVars, unitVars>>

\* 'await packet.build_edits()' and the return of hook_event
build_edits ==
    /\ pc = "hooks"
    /\ idx > Len(event_hooks[packet.type])
    /\ IF packet.edited_data.keys # {}
       THEN LET merged == [packet EXCEPT !.parsed_data = update(packet.parsed_data, packet.edited_data)]
            IN  IF CanBuild(packet.type, merged.parsed_data)
                THEN /\ packet' = build(merged)
                     /\ pc' = "write"
                     /\ UNCHANGED alive
                ELSE /\ packet' = merged
                     /\ pc' = "failed"
                     /\ alive' = alive \ Ended(task)
       ELSE /\ pc' = "write"
            /\ UNCHANGED <<packet, alive>>
    /\ UNCHANGED <<plugin_hooks, event_hooks, commands, wire, idx, send_ahead,
                   invoked, returned, cmd_result, server_out, client_out, task>>
    /\ UNCHANGED <<cacheVars, relayVars, unitVars>>

\* 'if await hook_event(...): await self.write_to_server(packet)' and the
\* same with write_to_client in client_listener
write_packet ==
    /\ pc = "write"
    /\ IF send_ahead
       THEN IF task = "server_listener"
            THEN /\ server_out' = Append(server_out, packet.original_data)
                 /\ UNCHANGED client_out
            ELSE /\ client_out' = Append(client_out, packet.original_data)
                 /\ UNCHANGED server_out
       ELSE UNCHANGED <<server_out, client_out>>
    /\ pc' = "done"
    /\ UNCHANGED <<plugin_hooks, event_hooks, commands, wire, packet, idx,
                   send_ahead, invoked, returned, cmd_result, task, alive>>
    /\ UNCHANGED <<cacheVars, relayVars, unitVars>>

\* 'while True': the iteration is over and its locals are dead; what it wrote
\* has left the socket buffers.
loop_back ==
    /\ pc \in {"done", "failed"}
    /\ pc' = "idle"
    /\ wire' = NoFrame
    /\ packet' = NoPacket
    /\ idx' = 0
    /\ send_ahead' = TRUE
    /\ invoked' = <<>>
    /\ returned' = <<>>
    /\ cmd_result' = ""
    /\ server_out' = <<>>
    /\ client_out' = <<>>
    /\ task' = "server_listener"
    /\ UNCHANGED <<plugin_hooks, event_hooks, commands, alive>>
    /\ UNCHANGED <<cacheVars, relayVars, unitVars>>

\* No send_message call and no writer of a socket
NoSends ==
    /\ sending = <<>>
    /\ writers = <<>>
    /\ transport = <<>>

\* Nothing handed to the codec, the registrar, the loader or Packet.copy
NoUnits ==
    /\ codec = <<>>
    /\ registered = <<>>
    /\ plugin_classes = <<>>
    /\ plugins = <<>>
    /\ pk = <<>>
    /\ NoSends

\* No connection has been accepted
NoSession ==
    /\ sock = <<>>
    /\ relay = <<>>
    /\ readlog = <<>>
    /\ writes = <<>>
    /\ teardown = [die |-> 0, close_out |-> 0]
    /\ nsent = 0

\* The plugin hooks loaded where the chat commands are exercised: none, one
\* in front of command_check, one behind it, or both.
ChatHookLists ==
    {<<>>,
     <<[event |-> "CHAT_SENT", priority |-> 100]>>,
     <<[event |-> "CHAT_SENT", priority |-> 1]>>,
     <<[event |-> "CHAT_SENT", priority |-> 100], [event |-> "CHAT_SENT", priority |-> 1]>>}

InitWith(lists) ==
    /\ plugin_hooks \in lists
    /\ event_hooks = [e \in PacketTypes |-> <<>>]
    /\ commands = <<>>
    /\ pc = "boot"
    /\ wire = NoFrame
    /\ packet = NoPacket
    /\ idx = 0
    /\ send_ahead = TRUE
    /\ invoked = <<>>
    /\ returned = <<>>
    /\ cmd_result = ""
    /\ server_out = <<>>
    /\ client_out = <<>>
    /\ task = "server_listener"
    /\ alive = Tasks
    /\ cache = <<>>
    /\ heap = <<>>
    /\ msg = [s \in {"task_a", "task_b"} |-> [pc |-> "idle"]]
    /\ hits = <<>>
    /\ passes = <<>>
    /\ nread = 0
    /\ reaper_task = FALSE
    /\ NoSession
    /\ NoUnits

Init == InitWith(ChatHookLists)

Next ==
    \/ load_all_plugins
    \/ read_packet(Frames)
    \/ hook_event_enter
    \/ call_hook
    \/ build_edits
    \/ write_packet
    \/ loop_back

Spec == Init /\ [][Next]_vars

\* The frames read where the hook chains are exercised: every type, and for
\* CHAT_SENT a plain line, the bare prefix and a command.
HookFrames ==
    {f \in Frames : f.type = "CHAT_SENT" /\ f.ok => f.text \in {<<"a">>, <<"/">>, <<"/", "a">>}}

InitHooks == InitWith(PluginHookLists)

NextHooks ==
    \/ load_all_plugins
    \/ read_packet(HookFrames)
    \/ hook_event_enter
    \/ call_hook
    \/ build_edits
    \/ write_packet
    \/ loop_back

SpecHooks == InitHooks /\ [][NextHooks]_vars

(***************************************************************************)
(* The parsed-packet cache (SpecCache). A dict is a cell of the heap: the  *)
(* value under its top-level keys, and the reference to the dict nested in *)
(* it (0 when it holds none). The heap maps the references in use to their *)
(* cells; a dict that nothing references any more is freed.                *)
(***************************************************************************)
\* The relay tasks that share the cache
Slots == {"task_a", "task_b"}

\* The frames read in SpecCache: one per type
CacheFrames ==
    {[type |-> "CHAT_SENT", ok |-> TRUE, text |-> <<"a">>],
     [type |-> "WORLD_START", ok |-> TRUE, text |-> <<>>],
     [type |-> "STEP_UPDATE", ok |-> TRUE, text |-> <<>>]}

\* The plugin hooks loaded in SpecCache: one on each parsed type
CachePluginHooks ==
    <<[event |-> "CHAT_SENT", priority |-> 100], [event |-> "WORLD_START", priority |-> 100]>>

\* parse_world_start returns a dict that holds dicts (template_data);
\* parse_chat_send and parse_step_update return flat dicts.
Nests(type) == type = "WORLD_START"

\* The reference a newly created dict gets: the lowest one not in use
Fresh(h) ==
    CHOOSE r \in 1..(Cardinality(DOMAIN h) + 1) :
        r \notin DOMAIN h /\ \A q \in 1..(r - 1) : q \in DOMAIN h

\* A new dict with the given contents: the heap after, and its reference
new_dict(h, cell) == [heap |-> (Fresh(h) :> cell) @@ h, ref |-> Fresh(h)]

\* parse_funcs[0](data_stream, direction): the new dict objects
decode_alloc(h, type) ==
    IF Nests(type)
    THEN LET nested == new_dict(h, [val |-> "parsed", sub |-> 0])
         IN  new_dict(nested.heap, [val |-> "parsed", sub |-> nested.ref])
    ELSE new_dict(h, [val |-> "parsed", sub |-> 0])

\* dict.copy(): a new dict with the same values, nested dicts shared
dict_copy(h, r) == new_dict(h, [val |-> h[r].val, sub |-> h[r].sub])

\* The heap without the dicts that neither a cache entry nor a packet in
\* flight references
collect(h, c, m) ==
    LET roots == ({c[k].ref : k \in DOMAIN c} \cup {m[s].parsed_data : s \in DOMAIN m}) \ {0}
        live == roots \cup ({h[r].sub : r \in roots} \ {0})
    IN  [r \in live |-> h[r]]

\* An entry whose creation is not counted as a use
CachedPacket_uncounted(r) == [count |-> 0, ref |-> r]

\* CachedPacket.__init__: self._count = 1
CachedPacket(r) == [count |-> 1, ref |-> r]

\* CachedPacket.get: self._count += 1 (the copy is dict_copy)
get(entry) == [entry EXCEPT !.count = @ + 1]

\* A reap_check that keeps an entry until its count is below zero
reap_check_late(entry) ==
    [entry |-> [entry EXCEPT !.count = @ - 1], reap |-> entry.count - 1 < 0]

\* CachedPacket.reap_check: self._count -= 1; return self._count <= 0
reap_check(entry) ==
    [entry |-> [entry EXCEPT !.count = @ - 1], reap |-> entry.count - 1 <= 0]

\* The value of a dict as a handler reads it: top level and nested
DeepValue(h, r) ==
    [val |-> h[r].val, sub |-> IF h[r].sub = 0 THEN "none" ELSE h[h[r].sub].val]

\* What decoding the frame yields
Pristine(frame) ==
    [val |-> "parsed", sub |-> IF Nests(frame.type) THEN "parsed" ELSE "none"]

IdleMsg ==
    [pc |-> "idle", original_data |-> NoFrame, parsed_data |-> 0,
     edited_data |-> FALSE, idx |-> 0, send_ahead |-> TRUE]

\* What a plugin hook may do to the packet it is given
PluginEffects == {"none", "set_top", "set_nested", "edit"}

\* A listener reads the next frame of its socket.
c_read_packet(s) ==
    /\ msg[s].pc = "idle"
    /\ nread < MaxReads
    /\ nread' = nread + 1
    /\ \E f \in CacheFrames :
          msg' = [msg EXCEPT ![s] = [IdleMsg EXCEPT !.pc = "hook_event",
                                                     !.original_data = f]]
    /\ UNCHANGED <<cache, heap, hits, passes, reaper_task>>

\* hook_event up to the for loop: parse_packet and the creation of the
\* reaper task
c_hook_event_enter(s) ==
    /\ msg[s].pc = "hook_event"
    /\ LET m == msg[s]
           packet_hash == m.original_data
       IN  IF HasHooks(event_hooks, m.original_data.type)
           THEN /\ IF packet_hash \in DOMAIN cache
                   THEN LET copied == dict_copy(heap, cache[packet_hash].ref) IN
                        /\ cache' = [cache EXCEPT ![packet_hash] = get(@)]
                        /\ heap' = copied.heap
                        /\ msg' = [msg EXCEPT ![s] = [m EXCEPT !.parsed_data = copied.ref,
                                                               !.idx = 1, !.pc = "hooks"]]
                        /\ hits' = [hits EXCEPT ![packet_hash] = @ + 1]
                        /\ UNCHANGED passes
                   ELSE LET decoded == decode_alloc(heap, m.original_data.type) IN
                        /\ heap' = decoded.heap
                        /\ cache' = (packet_hash :> CachedPacket(decoded.ref)) @@ cache
                        /\ msg' = [msg EXCEPT ![s] = [m EXCEPT !.parsed_data = decoded.ref,
                                                               !.idx = 1, !.pc = "hooks"]]
                        /\ hits' = [hits EXCEPT ![packet_hash] = 0]
                        /\ passes' = [passes EXCEPT ![packet_hash] = 0]
                /\ reaper_task' = TRUE
           ELSE /\ msg' = [msg EXCEPT ![s] = [m EXCEPT !.pc = "write"]]
                /\ UNCHANGED <<cache, heap, hits, passes, reaper_task>>
    /\ UNCHANGED nread

\* One turn of hook_event's for loop: a plugin hook may change the parsed
\* data in place or leave pending edits; the core hooks only read it. What
\* the hooks return is explored in SpecHooks; here the plugin hooks return
\* True.
c_call_hook(s) ==
    /\ msg[s].pc = "hooks"
    /\ msg[s].idx <= Len(event_hooks[msg[s].original_data.type])
    /\ LET m == msg[s]
           func == event_hooks[m.original_data.type][m.idx]
           r == m.parsed_data
       IN  \E effect \in IF func.owner = "plugin" THEN PluginEffects ELSE {"none"},
              ret \in IF func.owner = "plugin" THEN {"True"}
                      ELSE IF func.name = "command_check" THEN {"False"} ELSE {"True"} :
              /\ heap' = CASE effect = "set_top" -> [heap EXCEPT ![r].val = "changed"]
                           [] effect = "set_nested" /\ heap[r].sub # 0 ->
                                 [heap EXCEPT ![heap[r].sub].val = "changed"]
                           [] OTHER -> heap
              /\ msg' = [msg EXCEPT ![s] =
                            [m EXCEPT !.edited_data = @ \/ effect = "edit",
                                      !.send_ahead = update_send_ahead(@, ret),
                                      !.idx = next_hook(@, ret, Len(event_hooks[m.original_data.type]))]]
    /\ UNCHANGED <<cache, hits, passes, nread, reaper_task>>

\* Packet.build_edits: parsed_data.update(edited_data), then build
c_build_edits(s) ==
    /\ msg[s].pc = "hooks"
    /\ msg[s].idx > Len(event_hooks[msg[s].original_data.type])
    /\ LET m == msg[s] IN
       IF m.edited_data
       THEN /\ heap' = [heap EXCEPT ![m.parsed_data].val = "changed"]
            /\ msg' = [msg EXCEPT ![s] =
                          IF HasEncoder(m.original_data.type)
                          THEN [m EXCEPT !.pc = "write",
                                         !.original_data = [@ EXCEPT !.text = <<"b">>]]
                          ELSE [m EXCEPT !.pc = "failed"]]
       ELSE /\ msg' = [msg EXCEPT ![s] = [m EXCEPT !.pc = "write"]]
            /\ UNCHANGED heap
    /\ UNCHANGED <<cache, hits, passes, nread, reaper_task>>

\* The iteration ends: the frame is written or dropped, or the exception of
\* build_edits ends the listener.
c_finish(s) ==
    /\ msg[s].pc \in {"write", "failed"}
    /\ msg' = [msg EXCEPT ![s] = IdleMsg]
    /\ heap' = collect(heap, cache, msg')
    /\ UNCHANGED <<cache, hits, passes, nread, reaper_task>>

\* One pass of reap_packets over _cache.copy()
reap_packets ==
    /\ reaper_task
    /\ DOMAIN cache # {}
    /\ LET checked == [k \in DOMAIN cache |-> reap_check(cache[k])]
           kept == {k \in DOMAIN cache : ~checked[k].reap}
       IN  cache' = [k \in kept |-> checked[k].entry]
    /\ heap' = collect(heap, cache', msg)
    /\ passes' = [k \in DOMAIN passes |-> IF k \in DOMAIN cache THEN passes[k] + 1 ELSE passes[k]]
    /\ UNCHANGED <<msg, hits, nread, reaper_task>>

dispatchVars == <<plugin_hooks, event_hooks, commands, pc, wire, packet, idx, send_ahead,
                  invoked, returned, cmd_result, server_out, client_out, task, alive>>

InitCacheVars ==
    /\ cache = <<>>
    /\ heap = <<>>
    /\ msg = [s \in Slots |-> IdleMsg]
    /\ hits = [f \in CacheFrames |-> 0]
    /\ passes = [f \in CacheFrames |-> 0]
    /\ nread = 0
    /\ reaper_task = FALSE

\* After PluginManager.__init__ has collected hooks and commands
InitCache ==
    /\ plugin_hooks = CachePluginHooks
    /\ event_hooks = detect_event_hooks([e \in PacketTypes |-> <<>>], plugin_hooks)
    /\ commands = register_plugin(<<>>, PluginCommands)
    /\ pc = "idle"
    /\ wire = NoFrame
    /\ packet = NoPacket
    /\ idx = 0
    /\ send_ahead = TRUE
    /\ invoked = <<>>
    /\ returned = <<>>
    /\ cmd_result = ""
    /\ server_out = <<>>
    /\ client_out = <<>>
    /\ task = "server_listener"
    /\ alive = Tasks
    /\ InitCacheVars
    /\ NoSession
    /\ NoUnits

NextCache ==
    \/ \E s \in Slots : c_read_packet(s) /\ UNCHANGED <<dispatchVars, relayVars, unitVars>>
    \/ \E s \in Slots : c_hook_event_enter(s) /\ UNCHANGED <<dispatchVars, relayVars, unitVars>>
    \/ \E s \in Slots : c_call_hook(s) /\ UNCHANGED <<dispatchVars, relayVars, unitVars>>
    \/ \E s \in Slots : c_build_edits(s) /\ UNCHANGED <<dispatchVars, relayVars, unitVars>>
    \/ \E s \in Slots : c_finish(s) /\ UNCHANGED <<dispatchVars, relayVars, unitVars>>
    \/ reap_packets /\ UNCHANGED <<dispatchVars, relayVars, unitVars>>

SpecCache == InitCache /\ [][NextCache]_vars

(***************************************************************************)
(* Framing: a frame on the wire is the type byte, the size as a signed     *)
(* VLQ (negative when the body is zlib-compressed) and the body. Byte      *)
(* strings are sequences of numbers in 0..255.                             *)
(***************************************************************************)
\* PacketType.<name>.value
build_byte(type) ==
    CASE type = "CHAT_SENT"   -> 18
      [] type = "WORLD_START" -> 21
      [] OTHER                -> 61

\* PacketType(n).name
PacketType(n) ==
    CASE n = 18 -> "CHAT_SENT"
      [] n = 21 -> "WORLD_START"
      [] OTHER  -> "STEP_UPDATE"

\* The bytes build_vlq puts in front of the last one: seven bits each, most
\* significant first, with the continuation bit set
RECURSIVE vlq_high(_)
vlq_high(value) ==
    IF value = 0 THEN <<>> ELSE vlq_high(value \div 128) \o <<128 + (value % 128)>>

\* parser.build_vlq
build_vlq(obj) == vlq_high(obj \div 128) \o <<obj % 128>>

\* parser.build_signed_vlq
build_signed_vlq(obj) ==
    LET value == IF obj < 0 THEN -(obj * 2) ELSE obj * 2
    IN  build_vlq(IF obj < 0 THEN value - 1 ELSE value)

\* A read that is content with the bytes there are, like StreamReader.read
read_some(stream, n) ==
    IF Len(stream) = 0 THEN [ok |-> FALSE, data |-> <<>>, rest |-> <<>>]
    ELSE IF Len(stream) < n THEN [ok |-> TRUE, data |-> stream, rest |-> <<>>]
    ELSE [ok |-> TRUE, data |-> SubSeq(stream, 1, n), rest |-> SubSeq(stream, n + 1, Len(stream))]

\* StreamReader.readexactly(n) on the bytes the socket will deliver: n bytes
\* and what follows them, or not ok when fewer are to come
readexactly(stream, n) ==
    IF Len(stream) < n THEN [ok |-> FALSE, data |-> stream, rest |-> <<>>]
    ELSE [ok |-> TRUE, data |-> SubSeq(stream, 1, n), rest |-> SubSeq(stream, n + 1, Len(stream))]

\* The while loop of spy_utils.read_vlq
RECURSIVE read_vlq_loop(_, _, _)
read_vlq_loop(stream, value, raw_bytes) ==
    LET r == readexactly(stream, 1) IN
    IF ~r.ok THEN [ok |-> FALSE, value |-> 0, raw_bytes |-> raw_bytes, rest |-> <<>>]
    ELSE LET tmp == r.data[1]
             v == (value * 128) + (tmp % 128)
         IN  IF tmp \div 128 = 0
             THEN [ok |-> TRUE, value |-> v, raw_bytes |-> raw_bytes \o r.data, rest |-> r.rest]
             ELSE read_vlq_loop(r.rest, v, raw_bytes \o r.data)

\* spy_utils.read_vlq
read_vlq(stream) == read_vlq_loop(stream, 0, <<>>)

\* A read_vlq_signed that forgets the sign bit
read_vlq_unsigned(stream) == read_vlq(stream)

\* spy_utils.read_vlq_signed
read_vlq_signed(stream) ==
    LET r == read_vlq(stream) IN
    IF ~r.ok THEN r
    ELSE IF r.value % 2 = 0
         THEN [r EXCEPT !.value = r.value \div 2]
         ELSE [r EXCEPT !.value = -((r.value \div 2) + 1)]

\* The checksum that closes a zlib stream, over the bytes it holds
RECURSIVE adler_upto(_, _)
adler_upto(b, n) == IF n = 0 THEN 1 ELSE (adler_upto(b, n - 1) + b[n]) % 251

adler(b) == adler_upto(b, Len(b))

\* zlib.compress: header, length of the stored block, the block, checksum
compress(b) == <<120, 156, Len(b) % 256>> \o b \o <<adler(b)>>

\* zlib.decompress: the bytes of a well-formed stream; anything else, a
\* truncated stream included, is a zlib.error
decompress(d) ==
    IF /\ Len(d) >= 4
       /\ d[1] = 120
       /\ d[2] = 156
       /\ (Len(d) - 4) % 256 = d[3]
       /\ adler(SubSeq(d, 4, Len(d) - 1)) = d[Len(d)]
    THEN [ok |-> TRUE, data |-> SubSeq(d, 4, Len(d) - 1)]
    ELSE [ok |-> FALSE, data |-> <<>>]

\* The original frame as a concatenation of the raw body
original_from_final(packet_type, packet_size_data, data, final_data) ==
    packet_type \o packet_size_data \o final_data

\* read_packet: original_data = packet_type + packet_size_data + data
original_bytes(packet_type, packet_size_data, data, final_data) ==
    packet_type \o packet_size_data \o data

\* 'raise asyncio.IncompleteReadError' raises the class: Python calls it
\* with no arguments, IncompleteReadError.__init__ wants partial and
\* expected, and what is raised is the TypeError of that call.
raise_IncompleteReadError == "TypeError"

\* Packet.__init__ with the arguments read_packet and build_packet set
BytePacket(type, data, direction, size, compressed, original_data) ==
    [type |-> type, data |-> data, direction |-> direction, size |-> size,
     compressed |-> compressed, original_data |-> original_data]

NoBytePacket == BytePacket(0, <<>>, "TO_SERVER", <<>>, FALSE, <<>>)

\* packet.read_packet on the bytes the stream will deliver: the Packet and
\* the bytes left in the stream, or the exception raised
read_packet_from(stream, direction) ==
    LET t == readexactly(stream, 1)
        s == read_vlq_signed(t.rest)
        compressed == s.value < 0
        packet_size == IF s.value < 0 THEN -s.value ELSE s.value
        d == readexactly(s.rest, packet_size)
        z == decompress(d.data)
        final_data == IF compressed THEN z.data ELSE d.data
    IN  IF ~t.ok \/ ~s.ok \/ ~d.ok
        THEN [raised |-> "IncompleteReadError", packet |-> NoBytePacket, rest |-> <<>>]
        ELSE IF compressed /\ ~z.ok
        THEN [raised |-> raise_IncompleteReadError, packet |-> NoBytePacket, rest |-> d.rest]
        ELSE [raised |-> "",
              packet |-> BytePacket(t.data[1], final_data, direction, s.raw_bytes, compressed,
                                    original_bytes(t.data, s.raw_bytes, d.data, final_data)),
              rest |-> d.rest]

\* parser.build_packet for a type with an encoder, given what the encoder
\* makes of the parsed data
build_packet(p, encoded) ==
    LET size == Len(encoded)
        size_bytes == IF p.compressed THEN build_signed_vlq(-size) ELSE build_signed_vlq(size)
        data_bytes == IF p.compressed THEN compress(encoded) ELSE encoded
    IN  [p EXCEPT !.data = encoded, !.size = size,
                  !.original_data = <<p.type>> \o size_bytes \o data_bytes]

\* A frame as a peer composes it: T | svlq(+len or -len) | body
compose(type, body, compressed) ==
    LET wire_body == IF compressed THEN compress(body) ELSE body
    IN  <<build_byte(type)>>
        \o build_signed_vlq(IF compressed THEN -Len(wire_body) ELSE Len(wire_body))
        \o wire_body

(***************************************************************************)
(* One session (SpecRelay): server_listener reads the client's socket and  *)
(* writes upstream, client_listener reads the upstream socket and writes   *)
(* to the client.                                                          *)
(***************************************************************************)
Sockets == {"upstream", "client"}

\* A listener writing back to the socket it reads from
SameSide(t) == IF t = "server_listener" THEN "client" ELSE "upstream"

\* write_to_server in server_listener, write_to_client in client_listener
Opposite(t) == IF t = "server_listener" THEN "upstream" ELSE "client"

\* The bodies of the frames on the wire, by name; "long" has 64 bytes, so
\* that its size takes two VLQ bytes
Body(name) ==
    CASE name = "short" -> <<7>>
      [] name = "pair"  -> <<7, 8>>
      [] OTHER          -> [i \in 1..64 |-> i]

\* What the peer of the socket t reads puts into its frames: the three
\* types arrive on the client's connection, world starts and step updates
\* on the upstream one
WireMessages(t) ==
    IF t = "server_listener"
    THEN {[type |-> "CHAT_SENT", body |-> "pair", compressed |-> TRUE],
          [type |-> "WORLD_START", body |-> "short", compressed |-> FALSE],
          [type |-> "STEP_UPDATE", body |-> "long", compressed |-> TRUE]}
    ELSE {[type |-> "WORLD_START", body |-> "short", compressed |-> FALSE],
          [type |-> "STEP_UPDATE", body |-> "long", compressed |-> FALSE]}

\* Every message some peer sends, and its bytes on the wire
AllWireBytes ==
    [m \in WireMessages("server_listener") \cup WireMessages("client_listener") |->
        compose(m.type, Body(m.body), m.compressed)]

\* The bytes of a message on the wire
WireBytes(m) == AllWireBytes[m]

\* The frame a peer may break off in
BrokenMessage == [type |-> "STEP_UPDATE", body |-> "long", compressed |-> TRUE]

\* Where it is broken off: before its type byte, inside the size, before
\* the last byte of the body
Cuts(f) == {0, 2, Len(f) - 1}

\* A frame whose size is negative and whose body is no zlib stream
GarbageFrame == <<build_byte("STEP_UPDATE")>> \o build_signed_vlq(-2) \o <<0, 0>>

\* The bytes of a sequence of messages, one frame behind the other
RECURSIVE Concat(_)
Concat(ms) == IF ms = <<>> THEN <<>> ELSE WireBytes(Head(ms)) \o Concat(Tail(ms))

\* All the bytes a peer has put on its connection: its frames, then a
\* frame that does not decompress if it sent one, then the part of the
\* frame it broke off in
Stream(sk) ==
    Concat(sk.sent)
    \o (IF sk.garbage THEN GarbageFrame ELSE <<>>)
    \o SubSeq(WireBytes(BrokenMessage), 1, sk.cut)

\* The bytes the listener has not read yet
Unread(sk) == SubSeq(Stream(sk), sk.pos + 1, Len(Stream(sk)))

\* What the encoder of build_packet makes of the edited parsed data
EncodedBody == <<98, 121, 101>>

\* StreamWriter.write: the bytes go behind those written before
writer_write_front(buf, w) == <<w>> \o buf

writer_write(buf, w) == Append(buf, w)

\* What each hook of a chain may return here: the command dispatcher's
\* command_check returns False, the other core hooks True, a plugin's hook
\* either
ChainReturns(chain) ==
    {r \in [1..Len(chain) -> {"True", "False"}] :
        \A i \in 1..Len(chain) :
           /\ chain[i].name = "command_check" => r[i] = "False"
           /\ (chain[i].owner # "plugin" /\ chain[i].name # "command_check") => r[i] = "True"}

\* The for loop of hook_event over the whole chain
RECURSIVE run_chain(_, _)
run_chain(sa, rets) ==
    IF rets = <<>> THEN sa ELSE run_chain(update_send_ahead(sa, Head(rets)), Tail(rets))

\* Whether some hook of the chain may leave pending edits: the plugins' do
MayEdit(chain) == \E i \in 1..Len(chain) : chain[i].owner = "plugin"

\* A listener that has not read anything yet
StartRelay ==
    [pc |-> "read", packet |-> NoBytePacket, send_ahead |-> TRUE,
     caught |-> "", during |-> "", cancelled |-> FALSE]

\* The except clauses of the listener's try: what is done about the
\* exception that left the loop, as a teardown record to add. Only
\* server_listener's ConnectionResetError clause calls close_out.
except_clause(t, kind) ==
    [die |-> 0,
     close_out |-> IF t = "server_listener" /\ kind = "ConnectionResetError" THEN 1 ELSE 0]

\* A finally clause that lets the sibling run on
finally_no_cancel(t, rel, td) ==
    IF t = "server_listener"
    THEN [relay |-> rel, teardown |-> [td EXCEPT !.die = @ + 1]]
    ELSE [relay |-> rel, teardown |-> td]

\* The finally clause of server_listener: client_loop.cancel() and die().
\* client_listener has none.
finally(t, rel, td) ==
    IF t = "server_listener"
    THEN [relay |-> [rel EXCEPT !["client_listener"].cancelled = TRUE],
          teardown |-> [td EXCEPT !.die = @ + 1]]
    ELSE [relay |-> rel, teardown |-> td]

\* An exception leaves the while loop of listener t during the given call:
\* the except clause for it, then the finally clause, and the task is over.
listener_raises(t, kind, during) ==
    LET ex == except_clause(t, kind)
        fin == finally(t, [relay EXCEPT ![t].pc = "ended", ![t].caught = kind,
                                        ![t].during = during],
                       [die |-> teardown.die + ex.die,
                        close_out |-> teardown.close_out + ex.close_out])
    IN  /\ relay' = fin.relay
        /\ teardown' = fin.teardown

\* The peer of the socket t reads sends a frame.
peer_sends(t) ==
    /\ nsent < MaxSent
    /\ sock[t].state = "open"
    /\ ~sock[t].garbage
    /\ nsent' = nsent + 1
    /\ \E m \in WireMessages(t) :
          sock' = [sock EXCEPT ![t].sent = Append(@, m)]
    /\ UNCHANGED <<relay, readlog, writes, teardown>>

\* The peer sends a frame whose compressed body is not a zlib stream.
peer_sends_garbage(t) ==
    /\ nsent < MaxSent
    /\ sock[t].state = "open"
    /\ ~sock[t].garbage
    /\ nsent' = nsent + 1
    /\ sock' = [sock EXCEPT ![t].garbage = TRUE]
    /\ UNCHANGED <<relay, readlog, writes, teardown>>

\* The peer closes its end, having sent the first n bytes of a further
\* frame (n = 0: it closes between two frames).
peer_closes(t) ==
    /\ sock[t].state = "open"
    /\ \E n \in Cuts(WireBytes(BrokenMessage)) :
          sock' = [sock EXCEPT ![t].state = "eof", ![t].cut = n]
    /\ UNCHANGED <<relay, readlog, writes, teardown, nsent>>

\* The client's connection, which server_listener reads, is reset.
peer_resets ==
    /\ sock["server_listener"].state = "open"
    /\ sock' = [sock EXCEPT !["server_listener"].state = "reset"]
    /\ UNCHANGED <<relay, readlog, writes, teardown, nsent>>

\* The server task is cancelled from outside (the event loop shuts down).
cancel_server_loop ==
    /\ relay["server_listener"].pc # "ended"
    /\ ~relay["server_listener"].cancelled
    /\ relay' = [relay EXCEPT !["server_listener"].cancelled = TRUE]
    /\ UNCHANGED <<sock, readlog, writes, teardown, nsent>>

\* A cancelled task gets CancelledError at the await it stands at.
l_cancelled(t) ==
    /\ relay[t].pc # "ended"
    /\ relay[t].cancelled
    /\ listener_raises(t, "CancelledError", relay[t].pc)
    /\ UNCHANGED <<sock, readlog, writes, nsent>>

\* 'packet = await read_packet(...)': a Packet, or the exception of a stream
\* that ended, was reset or holds a body that does not decompress. With
\* too few bytes on an open stream the task waits.
l_read_packet(t) ==
    /\ relay[t].pc = "read"
    /\ ~relay[t].cancelled
    /\ LET r == read_packet_from(Unread(sock[t]), DirectionOf(t))
           end == Len(Stream(sock[t])) - Len(r.rest)
       IN
       IF sock[t].state = "reset"
       THEN /\ listener_raises(t, "ConnectionResetError", "read")
            /\ UNCHANGED <<sock, readlog>>
       ELSE IF r.raised = ""
       THEN /\ relay' = [relay EXCEPT ![t].pc = "dispatch", ![t].packet = r.packet]
            /\ sock' = [sock EXCEPT ![t].pos = end]
            /\ readlog' = [readlog EXCEPT ![t] = Append(@,
                              [from |-> sock[t].pos + 1, to |-> end,
                               verdict |-> "pending", edited |-> FALSE])]
            /\ UNCHANGED teardown
       ELSE /\ r.raised = "IncompleteReadError" => sock[t].state = "eof"
            /\ listener_raises(t, r.raised, "read")
            /\ sock' = [sock EXCEPT ![t].pos = end]
            /\ UNCHANGED readlog
    /\ UNCHANGED <<writes, nsent>>

\* 'await self.plugin_manager.hook_event(packet, self)': the chain decides
\* on send_ahead; pending edits are built into the frame, which raises
\* NotImplementedError out of hook_event when the type has no encoder.
l_hook_event(t) ==
    /\ relay[t].pc = "dispatch"
    /\ ~relay[t].cancelled
    /\ LET p == relay[t].packet
           chain == event_hooks[PacketType(p.type)]
           n == Len(readlog[t])
       IN  IF ~HasHooks(event_hooks, PacketType(p.type))
           THEN /\ relay' = [relay EXCEPT ![t].pc = "write", ![t].send_ahead = TRUE]
                /\ readlog' = [readlog EXCEPT ![t][n].verdict = "forward"]
                /\ UNCHANGED teardown
           ELSE \E rets \in ChainReturns(chain), edits \in BOOLEAN :
                   /\ edits => MayEdit(chain)
                   /\ IF edits /\ ~HasEncoder(PacketType(p.type))
                      THEN /\ listener_raises(t, "NotImplementedError", "dispatch")
                           /\ readlog' = [readlog EXCEPT ![t][n].verdict = "raised",
                                                         ![t][n].edited = TRUE]
                      ELSE /\ relay' = [relay EXCEPT
                                  ![t].pc = "write",
                                  ![t].send_ahead = run_chain(TRUE, rets),
                                  ![t].packet = IF edits THEN build_packet(p, EncodedBody) ELSE p]
                           /\ readlog' = [readlog EXCEPT
                                  ![t][n].verdict = IF run_chain(TRUE, rets) THEN "forward" ELSE "drop",
                                  ![t][n].edited = edits]
                           /\ UNCHANGED teardown
    /\ UNCHANGED <<sock, writes, nsent>>

\* 'if await hook_event(...): await self.write_to_server(packet)', or
\* write_to_client in client_listener; then the loop reads again.
l_write(t) ==
    /\ relay[t].pc = "write"
    /\ ~relay[t].cancelled
    /\ writes' = IF relay[t].send_ahead
                 THEN [writes EXCEPT ![Opposite(t)] =
                          writer_write(@, [by |-> t, n |-> Len(readlog[t]),
                                           data |-> relay[t].packet.original_data])]
                 ELSE writes
    /\ relay' = [relay EXCEPT ![t].pc = "read", ![t].packet = NoBytePacket]
    /\ UNCHANGED <<sock, readlog, teardown, nsent>>

\* Client.__init__ and the head of server_listener: the upstream
\* connection is open and both listeners run.
InitRelay ==
    /\ plugin_hooks = CachePluginHooks
    /\ event_hooks = detect_event_hooks([e \in PacketTypes |-> <<>>], plugin_hooks)
    /\ commands = register_plugin(<<>>, PluginCommands)
    /\ pc = "idle"
    /\ wire = NoFrame
    /\ packet = NoPacket
    /\ idx = 0
    /\ send_ahead = TRUE
    /\ invoked = <<>>
    /\ returned = <<>>
    /\ cmd_result = ""
    /\ server_out = <<>>
    /\ client_out = <<>>
    /\ task = "server_listener"
    /\ alive = Tasks
    /\ cache = <<>>
    /\ heap = <<>>
    /\ msg = [s \in Slots |-> IdleMsg]
    /\ hits = [f \in CacheFrames |-> 0]
    /\ passes = [f \in CacheFrames |-> 0]
    /\ nread = 0
    /\ reaper_task = FALSE
    /\ sock = [t \in Tasks |-> [sent |-> <<>>, garbage |-> FALSE, cut |-> 0,
                                state |-> "open", pos |-> 0]]
    /\ relay = [t \in Tasks |-> StartRelay]
    /\ readlog = [t \in Tasks |-> <<>>]
    /\ writes = [k \in Sockets |-> <<>>]
    /\ teardown = [die |-> 0, close_out |-> 0]
    /\ nsent = 0
    /\ NoUnits

NextRelay ==
    \/ \E t \in Tasks : peer_sends(t) /\ UNCHANGED <<dispatchVars, cacheVars, unitVars>>
    \/ \E t \in Tasks : peer_sends_garbage(t) /\ UNCHANGED <<dispatchVars, cacheVars, unitVars>>
    \/ \E t \in Tasks : peer_closes(t) /\ UNCHANGED <<dispatchVars, cacheVars, unitVars>>
    \/ peer_resets /\ UNCHANGED <<dispatchVars, cacheVars, unitVars>>
    \/ cancel_server_loop /\ UNCHANGED <<dispatchVars, cacheVars, unitVars>>
    \/ \E t \in Tasks : l_read_packet(t) /\ UNCHANGED <<dispatchVars, cacheVars, unitVars>>
    \/ \E t \in Tasks : l_hook_event(t) /\ UNCHANGED <<dispatchVars, cacheVars, unitVars>>
    \/ \E t \in Tasks : l_write(t) /\ UNCHANGED <<dispatchVars, cacheVars, unitVars>>
    \/ \E t \in Tasks : l_cancelled(t) /\ UNCHANGED <<dispatchVars, cacheVars, unitVars>>

SpecRelay == InitRelay /\ [][NextRelay]_vars

(***************************************************************************)
(* Properties of the chat-command dispatcher (Spec).                       *)
(***************************************************************************)
Range(s) == {s[i] : i \in 1..Len(s)}

\* hook_event has returned for the packet of this iteration
Returned == pc \in {"write", "done"}

\* A CHAT_SENT frame the decoder reads
ChatFrame(f) == f.type = "CHAT_SENT" /\ f.ok

\* The tokens behind the prefix of a chat line that starts with it
TokensOf(f) == split(DropPrefix(f.text, Len(command_prefix)))

\* No hook other than command_check returned a false value
NoOtherVeto ==
    \A i \in 1..Len(returned) :
        invoked[i].name # "command_check" => returned[i] \in {"True", "raise"}

\* The "does not exist" replies written to the client that name cmd
NotExistReplies(cmd) ==
    {m \in Range(client_out) :
        /\ m.type = "CHAT_RECEIVED"
        /\ m.message.fmt = "Command {cmd} does not exist. Try {deco}help for a list of commands."
        /\ m.message.cmd = cmd}

\* C1: a chat line that does not begin with the prefix is forwarded when no
\* other handler vetoes: hook_event returns true and the frame is written
\* upstream.
C1_PlainChatForwarded ==
    (/\ pc = "done"
     /\ task = "server_listener"
     /\ ChatFrame(wire)
     /\ ~startswith(wire.text, command_prefix)
     /\ packet.edited_data.keys = {}
     /\ NoOtherVeto)
    => (send_ahead /\ wire \in Range(server_out))

\* C2: a chat line whose first token behind the prefix, lower-cased, is a
\* registered command is consumed: once command_check has been awaited
\* hook_event returns false, and nothing is written upstream in the
\* iteration, whatever the command did.
C2_KnownCommandConsumed ==
    (/\ pc \in {"hook_event", "hooks", "write", "done", "failed"}
     /\ ChatFrame(wire)
     /\ startswith(wire.text, command_prefix)
     /\ TokensOf(wire) # <<>>
     /\ lower(TokensOf(wire)[1]) \in DOMAIN commands)
    => /\ server_out = <<>>
       /\ pc # "failed"
       /\ Returned => ~send_ahead

\* C2 witness: a registered command raised an unexpected exception and the
\* iteration is over.
C2_Witness ==
    /\ pc = "done"
    /\ ChatFrame(wire)
    /\ wire.text = <<"/", "A">>
    /\ cmd_result = "Exception"
    /\ ~send_ahead
    /\ server_out = <<>>

\* C3 as stated: the token X as typed is not in the command table, and the
\* reply names X.
C3_UnknownTokenAsTyped ==
    (/\ pc = "done"
     /\ ChatFrame(wire)
     /\ startswith(wire.text, command_prefix)
     /\ TokensOf(wire) # <<>>
     /\ TokensOf(wire)[1] \notin DOMAIN commands)
    => /\ ~send_ahead
       /\ NotExistReplies(TokensOf(wire)[1]) # {}

\* C3 amended: when the lower-cased first token X behind the prefix is not
\* in the command table, hook_event returns false and a CHAT_RECEIVED reply
\* "Command X does not exist." naming that lower-cased token is written to
\* the client.
C3_UnknownCommandReply ==
    (/\ Returned
     /\ ChatFrame(wire)
     /\ startswith(wire.text, command_prefix)
     /\ TokensOf(wire) # <<>>
     /\ lower(TokensOf(wire)[1]) \notin DOMAIN commands)
    => /\ ~send_ahead
       /\ NotExistReplies(lower(TokensOf(wire)[1])) # {}

\* C3 witness: "/Ab" was dispatched and answered with "Command ab does not
\* exist."
C3_Witness ==
    /\ pc = "done"
    /\ wire = [type |-> "CHAT_SENT", ok |-> TRUE, text |-> <<"/", "A", "b">>]
    /\ ~send_ahead
    /\ NotExistReplies(<<"a", "b">>) # {}

(***************************************************************************)
(* Properties of the hook chain (SpecHooks).                               *)
(***************************************************************************)
\* hook_event is past its for loop
ChainDone == pc \in {"write", "done", "failed"} /\ HasHooks(event_hooks, packet.type)

\* C4: a handler returning false makes hook_event return false, and every
\* handler of the chain is still called exactly once, in chain order.
C4_VetoKeepsChain ==
    /\ ChainDone => invoked = event_hooks[packet.type]
    /\ (Returned /\ \E i \in 1..Len(returned) : returned[i] = "False") => ~send_ahead

\* C4 witness: the first handler vetoed, a later one returned true, and
\* hook_event returned false.
C4_Witness ==
    /\ pc = "done"
    /\ Len(returned) >= 2
    /\ returned[1] = "False"
    /\ returned[Len(returned)] = "True"
    /\ invoked[1].priority > invoked[Len(invoked)].priority
    /\ ~send_ahead

C6_NoneIsTrue ==
    (/\ Returned
     /\ returned # <<>>
     /\ \A i \in 1..Len(returned) : returned[i] = "None")
    => send_ahead

\* Where detect_event_hooks appended the hook
InsertPos(h) == CHOOSE i \in 1..Len(Inserted(plugin_hooks)) : Inserted(plugin_hooks)[i] = h

\* C8: the handlers of a chain are called in descending priority, those of
\* equal priority in the order they were appended to the registry (plugins,
\* then player manager, world manager, command dispatcher), and the chain
\* is exactly the hooks appended for the type.
C8_ChainOrder ==
    /\ \A i, j \in 1..Len(invoked) :
          i < j => \/ invoked[i].priority > invoked[j].priority
                   \/ /\ invoked[i].priority = invoked[j].priority
                      /\ InsertPos(invoked[i]) < InsertPos(invoked[j])
    /\ ChainDone =>
          /\ Range(invoked) = {h \in Range(Inserted(plugin_hooks)) : h.event = packet.type}
          /\ Len(invoked) = Cardinality(Range(invoked))

\* C8 witness: a chain of three was run in which a plugin hook and a core
\* hook share a priority, and two plugin hooks share one.
C8_Witness ==
    /\ pc = "done"
    /\ Len(invoked) >= 3
    /\ \E i \in 1..Len(invoked) - 1 :
          /\ invoked[i].priority = invoked[i + 1].priority
          /\ invoked[i].owner = "plugin"
          /\ invoked[i + 1].owner # "plugin"
    /\ \E i \in 1..Len(invoked) - 1 :
          /\ invoked[i].priority = invoked[i + 1].priority
          /\ invoked[i].owner = "plugin"
          /\ invoked[i + 1].owner = "plugin"

(***************************************************************************)
(* Properties of the parse cache (SpecCache).                              *)
(***************************************************************************)
\* The types no hook is registered for
Hookless(type) == event_hooks[type] = <<>>

\* C7: for a message of a type without hooks, hook_event returns true at
\* once and does not parse: the parsed value and the original frame of the
\* message, the parse cache and the dicts it holds are as before the call.
C7_NoHooksNoParse ==
    [][\A s \in Slots :
          (/\ msg[s].pc = "hook_event"
           /\ Hookless(msg[s].original_data.type)
           /\ msg'[s] # msg[s])
          => /\ msg'[s].pc = "write"
             /\ msg'[s].send_ahead = TRUE
             /\ msg'[s].parsed_data = msg[s].parsed_data
             /\ msg'[s].original_data = msg[s].original_data
             /\ cache' = cache
             /\ heap' = heap
             /\ reaper_task' = reaper_task]_vars

\* C7 witness: a STEP_UPDATE has come out of hook_event to be forwarded,
\* unparsed, while the cache holds entries of other frames.
C7_Witness ==
    \E s \in Slots :
       /\ msg[s].pc = "write"
       /\ msg[s].original_data.type = "STEP_UPDATE"
       /\ msg[s].send_ahead
       /\ msg[s].parsed_data = 0
       /\ DOMAIN cache # {}

\* C9: a message that has just been parsed, none of its own handlers having
\* run yet, carries the value its bytes decode to, whatever the handlers of
\* other messages with the same bytes did to their parsed values.
C9_ParsesIndependent ==
    \A s \in Slots :
       (msg[s].pc = "hooks" /\ msg[s].idx = 1)
       => DeepValue(heap, msg[s].parsed_data) = Pristine(msg[s].original_data)

\* A reaper pass is the only step that changes the cache and no message
ReaperPass == msg' = msg /\ cache' # cache

\* C10: a reaper pass lowers the count of every entry by one and removes
\* exactly the entries that reach zero; an entry in the cache has count
\* 1 + hits - passes and has seen at most as many passes as hits since it
\* was created, and an evicted one was removed by pass hits + 1.
C10_ReaperEviction ==
    /\ [][ReaperPass =>
            /\ DOMAIN cache' = {k \in DOMAIN cache : cache[k].count - 1 # 0}
            /\ \A k \in DOMAIN cache' : cache'[k] = [cache[k] EXCEPT !.count = @ - 1]]_vars
    /\ [](\A k \in CacheFrames :
            IF k \in DOMAIN cache
            THEN /\ cache[k].count = 1 + hits[k] - passes[k]
                 /\ passes[k] <= hits[k]
            ELSE \/ passes[k] = hits[k] + 1
                 \/ passes[k] = 0 /\ hits[k] = 0)

\* C10 witness: an entry that was hit twice has been evicted, by the third
\* pass after its creation.
C10_Witness ==
    \E k \in CacheFrames :
       /\ k \notin DOMAIN cache
       /\ hits[k] = 2
       /\ passes[k] = 3

(***************************************************************************)
(* Properties of the relay and of the framing (SpecRelay).                 *)
(***************************************************************************)
\* The bytes read_packet took from the stream for an entry of the read log
Wire(t, e) == SubSeq(Stream(sock[t]), e.from, e.to)

\* The writes made for the n-th frame listener t read, on any socket
WritesFor(t, n) ==
    {<<k, i>> \in Sockets \X (1..MaxSent) :
        i <= Len(writes[k]) /\ writes[k][i].by = t /\ writes[k][i].n = n}

\* The iteration of the n-th frame listener t read is over
Completed(t, n) ==
    \/ n < Len(readlog[t])
    \/ n = Len(readlog[t]) /\ relay[t].pc = "read"

\* C11: what is written for a frame on which no handler left edits, parsed
\* or not, compressed or not, is byte for byte what was read from the wire.
C11_UneditedBitIdentical ==
    \A k \in Sockets : \A i \in 1..Len(writes[k]) :
       LET w == writes[k][i]
           e == readlog[w.by][w.n]
       IN  ~e.edited => w.data = Wire(w.by, e)

\* C11 witness: a compressed frame of a type without hooks and a frame of a
\* type with hooks, which was parsed, have both been forwarded unedited.
C11_Witness ==
    /\ Len(writes["upstream"]) = 2
    /\ \E i, j \in 1..2 :
          /\ PacketType(writes["upstream"][i].data[1]) = "STEP_UPDATE"
          /\ PacketType(writes["upstream"][j].data[1]) = "WORLD_START"
          /\ ~readlog["server_listener"][writes["upstream"][j].n].edited

\* C12: the frames a listener forwards reach the opposite socket in the
\* order it read them.
C12_OrderPreserved ==
    \A k \in Sockets : \A i, j \in 1..Len(writes[k]) :
       (i < j /\ writes[k][i].by = writes[k][j].by) => writes[k][i].n < writes[k][j].n

\* C12 witness: two different frames read from the client have been written
\* upstream.
C12_Witness ==
    /\ Len(writes["upstream"]) = 2
    /\ writes["upstream"][1].data # writes["upstream"][2].data

\* C16: a frame is written exactly once, to the socket opposite the one it
\* was read from, when hook_event returned true, and to no socket when it
\* returned false.
C16_ForwardOrDrop ==
    /\ \A k \in Sockets : \A i \in 1..Len(writes[k]) :
          /\ k = IF writes[k][i].by = "server_listener" THEN "upstream" ELSE "client"
          /\ readlog[writes[k][i].by][writes[k][i].n].verdict = "forward"
    /\ \A t \in Tasks : \A n \in 1..Len(readlog[t]) :
          Completed(t, n) =>
             Cardinality(WritesFor(t, n)) = IF readlog[t][n].verdict = "forward" THEN 1 ELSE 0

\* C16 witness: server_listener has dropped a frame, client_listener has
\* forwarded one, and both have gone back to reading.
C16_Witness ==
    /\ Completed("server_listener", 1)
    /\ readlog["server_listener"][1].verdict = "drop"
    /\ Completed("client_listener", 1)
    /\ Len(writes["client"]) = 1
    /\ writes["upstream"] = <<>>

\* C17: the Packet read_packet returns for the n-th frame a peer composed
\* has its type, its compressed flag, its body (decompressed when it was
\* compressed) and exactly its bytes as original frame, and the read began
\* where the one before ended.
C17_ReadRecoversFrame ==
    \A t \in Tasks :
       /\ Len(readlog[t]) <= Len(sock[t].sent)
       /\ \A n \in 1..Len(readlog[t]) :
             /\ Wire(t, readlog[t][n]) = compose(sock[t].sent[n].type,
                                                 Body(sock[t].sent[n].body),
                                                 sock[t].sent[n].compressed)
             /\ readlog[t][n].from = IF n = 1 THEN 1 ELSE readlog[t][n - 1].to + 1
       /\ relay[t].pc = "dispatch" =>
             LET m == sock[t].sent[Len(readlog[t])]
                 p == relay[t].packet
             IN  /\ p.type = build_byte(m.type)
                 /\ p.compressed = m.compressed
                 /\ p.data = Body(m.body)
                 /\ p.original_data = compose(m.type, Body(m.body), m.compressed)

\* C17 witness: the second frame of a stream, compressed and with a size of
\* two VLQ bytes, has been read.
C17_Witness ==
    \E t \in Tasks :
       /\ relay[t].pc = "dispatch"
       /\ Len(readlog[t]) = 2
       /\ relay[t].packet.compressed
       /\ Len(relay[t].packet.size) = 2
       /\ Len(relay[t].packet.data) = 64

\* C18: a frame broken off in its type byte, its size or its body yields no
\* Packet and no write, and the read of it fails with IncompleteReadError.
C18_TruncatedFrameFails ==
    \A t \in Tasks :
       sock[t].state = "eof" =>
          /\ Len(readlog[t]) <= Len(sock[t].sent)
          /\ \A k \in Sockets : \A i \in 1..Len(writes[k]) :
                writes[k][i].by = t => writes[k][i].n <= Len(sock[t].sent)
          /\ (/\ relay[t].pc = "ended"
              /\ relay[t].during = "read"
              /\ relay[t].caught # "CancelledError"
              /\ ~sock[t].garbage
              /\ Len(readlog[t]) = Len(sock[t].sent))
             => relay[t].caught = "IncompleteReadError"

\* C18 witness: behind a complete frame, which was read, a frame broke off
\* inside its body, and the listener ended on IncompleteReadError.
C18_Witness ==
    \E t \in Tasks :
       /\ sock[t].state = "eof"
       /\ sock[t].cut > 2
       /\ Len(sock[t].sent) = 1
       /\ Len(readlog[t]) = 1
       /\ relay[t].pc = "ended"
       /\ relay[t].caught = "IncompleteReadError"

\* C19: a compressed body that does not decompress ends the read with the
\* error a closed stream gives, IncompleteReadError.
C19_ZlibErrorIsIncompleteRead ==
    \A t \in Tasks :
       (/\ sock[t].garbage
        /\ sock[t].pos > Len(Concat(sock[t].sent))
        /\ relay[t].pc = "ended"
        /\ relay[t].during = "read"
        /\ relay[t].caught # "CancelledError")
       => relay[t].caught = "IncompleteReadError"

\* C20: the frame build_packet emits for an edited message reads back with
\* read_packet as a frame of the same type and compressed flag whose body
\* is the encoded body.
C20_RebuiltFrameReadsBack ==
    \A t \in Tasks :
       (/\ relay[t].pc = "write"
        /\ readlog[t][Len(readlog[t])].edited)
       => LET p == relay[t].packet
              r == read_packet_from(p.original_data, p.direction)
          IN  /\ r.raised = ""
              /\ r.rest = <<>>
              /\ r.packet.type = p.type
              /\ r.packet.compressed = p.compressed
              /\ r.packet.data = EncodedBody

\* C13: once client_listener has met the end of the upstream stream,
\* server_listener is over or has been cancelled.
C13_UpstreamCloseTearsDown ==
    (/\ relay["client_listener"].pc = "ended"
     /\ relay["client_listener"].caught = "IncompleteReadError")
    => \/ relay["server_listener"].pc = "ended"
       \/ relay["server_listener"].cancelled

\* C14: when server_listener has ended, however it did, cancel() was called
\* on client_loop and die has run; die never runs twice.
C14_ServerEndTearsDown ==
    /\ teardown.die <= 1
    /\ relay["server_listener"].pc = "ended" =>
          /\ relay["client_listener"].cancelled
          /\ teardown.die = 1

\* C14 witness: server_listener ended on an exception out of hook_event
\* while client_listener was running, which then ended cancelled.
C14_Witness ==
    /\ relay["server_listener"].pc = "ended"
    /\ relay["server_listener"].caught = "NotImplementedError"
    /\ relay["client_listener"].pc = "ended"
    /\ relay["client_listener"].caught = "CancelledError"
    /\ teardown.die = 1

\* C15: when server_listener has ended, close_out has been called for the
\* client.
C15_EveryEndClosesOut ==
    relay["server_listener"].pc = "ended" => teardown.close_out >= 1

(***************************************************************************)
(* The structured codec (parser.py) on in-memory streams. A Python value   *)
(* is its type and its payload; a float is kept as the bytes of its IEEE   *)
(* representation, a dict as the sequence of its (key, value) pairs in     *)
(* insertion order, a str as its UTF-8 bytes. A parse gives the value, the *)
(* rest of the stream and the exception raised ("" when none).             *)
(***************************************************************************)
RECURSIVE Pow2(_)
Pow2(k) == IF k = 0 THEN 1 ELSE 2 * Pow2(k - 1)

Py(t, v) == [t |-> t, v |-> v]

PyNone == Py("NoneType", 0)

Parsed(val, rest) == [err |-> "", val |-> val, rest |-> rest]

Raised(err) == [err |-> err, val |-> PyNone, rest |-> <<>>]

\* The first exception of a sequence of steps
RECURSIVE FirstErr(_)
FirstErr(errs) ==
    IF errs = <<>> THEN ""
    ELSE IF errs[1] # "" THEN errs[1] ELSE FirstErr(Tail(errs))

\* BytesIO.read(n): the bytes there are, at most n
stream_read(stream, n) ==
    IF Len(stream) <= n THEN [data |-> stream, rest |-> <<>>]
    ELSE [data |-> SubSeq(stream, 1, n), rest |-> SubSeq(stream, n + 1, Len(stream))]

\* parser.parse_byte: ord() of an empty read is a TypeError
parse_byte(stream) ==
    IF stream = <<>> THEN Raised("TypeError")
    ELSE Parsed(Py("int", stream[1]), Tail(stream))

\* parser.build_byte: int.to_bytes(1, "big", signed=False)
int_to_byte(obj) ==
    IF obj.t \notin {"int", "bool"} THEN [err |-> "AttributeError", data |-> <<>>]
    ELSE IF obj.v \notin 0..255 THEN [err |-> "OverflowError", data |-> <<>>]
    ELSE [err |-> "", data |-> <<obj.v>>]

\* parser.parse_vlq: the loop ends at a byte without the continuation bit,
\* or at the end of the stream (the TypeError of ord() is caught)
RECURSIVE parse_vlq_loop(_, _)
parse_vlq_loop(stream, value) ==
    IF stream = <<>> THEN Parsed(Py("int", value), <<>>)
    ELSE LET tmp == stream[1]
             v == (value * 128) + (tmp % 128)
         IN  IF tmp \div 128 = 0 THEN Parsed(Py("int", v), Tail(stream))
             ELSE parse_vlq_loop(Tail(stream), v)

parse_vlq(stream) == parse_vlq_loop(stream, 0)

\* A parse_signed_vlq that takes the low bit for part of the magnitude
parse_signed_vlq_no_sign(stream) == parse_vlq(stream)

\* parser.parse_signed_vlq
parse_signed_vlq(stream) ==
    LET r == parse_vlq(stream) IN
    IF r.val.v % 2 = 0
    THEN [r EXCEPT !.val = Py("int", r.val.v \div 2)]
    ELSE [r EXCEPT !.val = Py("int", -((r.val.v \div 2) + 1))]

(***************************************************************************)
(* struct, strings and uuids.                                              *)
(***************************************************************************)
Built(data) == [err |-> "", data |-> data]

BuildRaised(err) == [err |-> err, data |-> <<>>]

\* The format of each struct_cache entry, without the byte-order mark
StructCodes(data_type) ==
    CASE data_type = "bool"   -> <<"?">>
      [] data_type = "uint16" -> <<"H">>
      [] data_type = "int32"  -> <<"l">>
      [] data_type = "float"  -> <<"f">>
      [] data_type = "double" -> <<"d">>
      [] data_type = "vec2f"  -> <<"f", "f">>
      [] data_type = "vec2i"  -> <<"l", "l">>
      [] data_type = "vec2ui" -> <<"L", "L">>
      [] OTHER                -> <<"l", "l", "l">>     \* vec3i

CodeSize(c) ==
    CASE c = "?" -> 1
      [] c = "H" -> 2
      [] c = "d" -> 8
      [] OTHER   -> 4

\* Struct.size
RECURSIVE calcsize(_)
calcsize(codes) == IF codes = <<>> THEN 0 ELSE CodeSize(codes[1]) + calcsize(Tail(codes))

\* The big-endian value of a byte string
RECURSIVE from_bytes(_)
from_bytes(b) ==
    IF b = <<>> THEN 0 ELSE (from_bytes(SubSeq(b, 1, Len(b) - 1)) * 256) + b[Len(b)]

\* The n bytes of v, big-endian, two's complement for a negative v
to_bytes(v, n) == [i \in 1..n |-> (v \div Pow2(8 * (n - i))) % 256]

\* Struct.unpack for one format code
unpack_one(c, b) ==
    CASE c = "?" -> Py("bool", b[1] # 0)
      [] c = "H" -> Py("int", from_bytes(b))
      [] c = "L" -> Py("int", from_bytes(b))
      [] c = "l" -> LET sign == b[1] \div 128
                    IN  Py("int", from_bytes(<<b[1] % 128>> \o Tail(b))
                                  - (sign * Pow2(30)) - (sign * Pow2(30)))
      [] OTHER   -> Py("float", b)

\* Struct.unpack: always a tuple
RECURSIVE unpack(_, _)
unpack(codes, data) ==
    IF codes = <<>> THEN <<>>
    ELSE <<unpack_one(codes[1], SubSeq(data, 1, CodeSize(codes[1])))>>
         \o unpack(Tail(codes), SubSeq(data, CodeSize(codes[1]) + 1, Len(data)))

\* parser.parse_with_struct
parse_with_struct(stream, data_type) ==
    LET s == StructCodes(data_type)
        r == stream_read(stream, calcsize(s))
    IN  IF Len(r.data) < calcsize(s) THEN Raised("struct.error")
        ELSE LET unpacked == unpack(s, r.data)
             IN  Parsed(IF Len(unpacked) = 1 THEN unpacked[1] ELSE Py("tuple", unpacked), r.rest)

\* Python truth value
PyTruth(obj) ==
    CASE obj.t = "bool"     -> obj.v
      [] obj.t = "int"      -> obj.v # 0
      [] obj.t = "NoneType" -> FALSE
      [] obj.t = "float"    -> TRUE
      [] OTHER              -> obj.v # <<>>

\* Struct.pack for one format code and one argument. (A float code also
\* takes an int and converts it; no encoder here is handed one.)
pack_one(c, obj) ==
    CASE c = "?" -> Built(<<IF PyTruth(obj) THEN 1 ELSE 0>>)
      [] c \in {"f", "d"} ->
            IF obj.t = "float" /\ Len(obj.v) = CodeSize(c) THEN Built(obj.v)
            ELSE BuildRaised("struct.error")
      [] OTHER ->
            IF obj.t \notin {"int", "bool"} THEN BuildRaised("struct.error")
            ELSE LET v == IF obj.t = "bool" THEN (IF obj.v THEN 1 ELSE 0) ELSE obj.v
                     lo == IF c = "l" THEN (-Pow2(30)) - Pow2(30) ELSE 0
                     hi == IF c = "H" THEN 65535 ELSE Pow2(30) - 1 + Pow2(30)
                 IN  IF v < lo \/ v > hi THEN BuildRaised("struct.error")
                     ELSE Built(to_bytes(v, CodeSize(c)))

\* Struct.pack(*args): as many arguments as the format has codes
RECURSIVE pack(_, _)
pack(codes, args) ==
    IF Len(codes) # Len(args) THEN BuildRaised("struct.error")
    ELSE IF codes = <<>> THEN Built(<<>>)
    ELSE LET h == pack_one(codes[1], args[1])
             t == pack(Tail(codes), Tail(args))
         IN  IF h.err # "" THEN h ELSE IF t.err # "" THEN t ELSE Built(h.data \o t.data)

\* A build_with_struct that spreads a tuple over the arguments of pack
build_with_struct_spread(obj, data_type) ==
    pack(StructCodes(data_type), IF obj.t = "tuple" THEN obj.v ELSE <<obj>>)

\* parser.build_with_struct: struct_cache[data_type].pack(obj), obj being
\* the one argument whatever the format
build_with_struct(obj, data_type) == pack(StructCodes(data_type), <<obj>>)

\* bytes.decode("utf-8"): the code points, or UnicodeDecodeError
RECURSIVE utf8_decode(_)
utf8_decode(b) ==
    IF b = <<>> THEN [err |-> "", cps |-> <<>>]
    ELSE LET n == IF b[1] < 128 THEN 1
                  ELSE IF b[1] \in 194..223 THEN 2
                  ELSE IF b[1] \in 224..239 THEN 3
                  ELSE IF b[1] \in 240..244 THEN 4 ELSE 0
             conts == IF n = 0 \/ Len(b) < n THEN FALSE
                      ELSE \A i \in 2..n : b[i] \in 128..191
             cp == CASE n = 1 -> b[1]
                     [] n = 2 -> ((b[1] - 192) * 64) + (b[2] - 128)
                     [] n = 3 -> ((b[1] - 224) * 4096) + ((b[2] - 128) * 64) + (b[3] - 128)
                     [] OTHER -> ((b[1] - 240) * 262144) + ((b[2] - 128) * 4096)
                                 + ((b[3] - 128) * 64) + (b[4] - 128)
             fine == /\ conts
                     /\ n = 3 => cp >= 2048 /\ cp \notin 55296..57343
                     /\ n = 4 => cp \in 65536..1114111
         IN  IF ~fine THEN [err |-> "UnicodeDecodeError", cps |-> <<>>]
             ELSE LET rest == utf8_decode(SubSeq(b, n + 1, Len(b)))
                  IN  IF rest.err # "" THEN rest ELSE [err |-> "", cps |-> <<cp>> \o rest.cps]

\* str.encode("utf-8")
RECURSIVE utf8_encode(_)
utf8_encode(cps) ==
    IF cps = <<>> THEN <<>>
    ELSE LET cp == cps[1]
             head == IF cp < 128 THEN <<cp>>
                     ELSE IF cp < 2048 THEN <<192 + (cp \div 64), 128 + (cp % 64)>>
                     ELSE IF cp < 65536
                          THEN <<224 + (cp \div 4096), 128 + ((cp \div 64) % 64), 128 + (cp % 64)>>
                          ELSE <<240 + (cp \div 262144), 128 + ((cp \div 4096) % 64),
                                 128 + ((cp \div 64) % 64), 128 + (cp % 64)>>
         IN  head \o utf8_encode(Tail(cps))

\* parser.parse_byte_array: a short read is no error
parse_byte_array(stream) ==
    LET array_len == parse_vlq(stream)
        r == stream_read(array_len.rest, array_len.val.v)
    IN  Parsed(Py("bytes", r.data), r.rest)

\* parser.build_byte_array
build_byte_array(obj) == Built(build_vlq(Len(obj.v)) \o obj.v)

\* parser.parse_utf8_string
parse_utf8_string(stream) ==
    LET r == parse_byte_array(stream)
        d == utf8_decode(r.val.v)
    IN  IF d.err # "" THEN Raised(d.err) ELSE Parsed(Py("str", d.cps), r.rest)

\* parser.build_utf8_string: obj.encode("utf-8")
build_utf8_string(obj) ==
    IF obj.t # "str" THEN BuildRaised("AttributeError")
    ELSE build_byte_array(Py("bytes", utf8_encode(obj.v)))

\* The ASCII code of a hexadecimal digit, lower case
HexDigit(n) == IF n < 10 THEN 48 + n ELSE 87 + n

\* The value of a hexadecimal digit given by its ASCII code, 16 for none
HexValue(c) ==
    IF c \in 48..57 THEN c - 48
    ELSE IF c \in 97..102 THEN c - 87
    ELSE IF c \in 65..70 THEN c - 55 ELSE 16

\* parser.parse_uuid: hexlify(stream.read(16))
parse_uuid(stream) ==
    LET r == stream_read(stream, 16)
    IN  Parsed(Py("bytes", [i \in 1..(2 * Len(r.data)) |->
                               IF i % 2 = 1 THEN HexDigit(r.data[(i + 1) \div 2] \div 16)
                               ELSE HexDigit(r.data[i \div 2] % 16)]),
               r.rest)

\* parser.build_uuid: unhexlify(obj)
build_uuid(obj) ==
    IF obj.t \notin {"bytes", "str"} THEN BuildRaised("TypeError")
    ELSE IF Len(obj.v) % 2 = 1 \/ \E i \in 1..Len(obj.v) : HexValue(obj.v[i]) = 16
    THEN BuildRaised("binascii.Error")
    ELSE Built([i \in 1..(Len(obj.v) \div 2) |->
                   (HexValue(obj.v[(2 * i) - 1]) * 16) + HexValue(obj.v[2 * i])])

(***************************************************************************)
(* TaggedJson, sets and maps.                                              *)
(***************************************************************************)
\* dict[key] = value: a new key goes to the end, a known key keeps its place
RECURSIVE dict_set(_, _, _)
dict_set(pairs, key, value) ==
    IF pairs = <<>> THEN <<(<<key, value>>)>>
    ELSE IF pairs[1][1] = key THEN <<(<<key, value>>)>> \o Tail(pairs)
    ELSE <<pairs[1]>> \o dict_set(Tail(pairs), key, value)

\* A build_json that asks isinstance(obj, int) before isinstance(obj, bool):
\* a bool is an int
json_tag_int_first(obj) ==
    CASE obj.t = "NoneType" -> 1
      [] obj.t = "float"    -> 2
      [] obj.t \in {"int", "bool"} -> 4
      [] obj.t = "str"      -> 5
      [] obj.t = "list"     -> 6
      [] obj.t = "dict"     -> 7
      [] OTHER              -> 0

\* The isinstance chain of build_json: the tag byte, 0 for the TypeError
json_tag(obj) ==
    CASE obj.t = "NoneType" -> 1
      [] obj.t = "float"    -> 2
      [] obj.t = "bool"     -> 3
      [] obj.t = "int"      -> 4
      [] obj.t = "str"      -> 5
      [] obj.t = "list"     -> 6
      [] obj.t = "dict"     -> 7
      [] OTHER              -> 0

RECURSIVE parse_json(_)
RECURSIVE parse_json_items(_, _)
RECURSIVE parse_json_pairs(_, _)

\* One more element on the list of a comprehension; the exception of the
\* element goes through
list_append(acc, h) ==
    IF h.err # "" THEN h ELSE Parsed(Append(acc.val, h.val), h.rest)

\* [parse_json(stream) for _ in range(n)] of parse_set, acc being the list
\* and the stream so far
parse_json_items(acc, n) ==
    IF n = 0 \/ acc.err # "" THEN acc
    ELSE parse_json_items(list_append(acc, parse_json(acc.rest)), n - 1)

\* (k, parse_json(stream)) for the key k that was read
parse_json_pair(k) ==
    IF k.err # "" THEN k
    ELSE list_append(Parsed(<<k.val>>, k.rest), parse_json(k.rest))

\* dict((parse_utf8_string(stream), parse_json(stream)) for _ in range(n))
\* of parse_hashmap, as the pairs in generation order
parse_json_pairs(acc, n) ==
    IF n = 0 \/ acc.err # "" THEN acc
    ELSE parse_json_pairs(list_append(acc, parse_json_pair(parse_utf8_string(acc.rest))), n - 1)

\* dict(pairs)
RECURSIVE dict_of(_, _)
dict_of(d, pairs) ==
    IF pairs = <<>> THEN d ELSE dict_of(dict_set(d, pairs[1][1], pairs[1][2]), Tail(pairs))

\* The list or the dict made of what a comprehension gave
json_container(r, t) ==
    IF r.err # "" THEN r
    ELSE Parsed(Py(t, IF t = "dict" THEN dict_of(<<>>, r.val) ELSE r.val), r.rest)

\* parser.parse_json_array (parse_set with parse_json)
parse_json_array(stream) ==
    json_container(parse_json_items(Parsed(<<>>, parse_vlq(stream).rest),
                                    parse_vlq(stream).val.v),
                   "list")

\* parser.parse_json_object (parse_hashmap with parse_utf8_string, parse_json)
parse_json_object(stream) ==
    json_container(parse_json_pairs(Parsed(<<>>, parse_vlq(stream).rest),
                                    parse_vlq(stream).val.v),
                   "dict")

\* parser.parse_json
parse_json(stream) ==
    LET t == parse_byte(stream) IN
    IF t.err # "" THEN t
    ELSE CASE t.val.v = 1 -> Parsed(PyNone, t.rest)
           [] t.val.v = 2 -> parse_with_struct(t.rest, "double")
           [] t.val.v = 3 -> parse_with_struct(t.rest, "bool")
           [] t.val.v = 4 -> parse_signed_vlq(t.rest)
           [] t.val.v = 5 -> parse_utf8_string(t.rest)
           [] t.val.v = 6 -> parse_json_array(t.rest)
           [] t.val.v = 7 -> parse_json_object(t.rest)
           [] OTHER       -> Raised("ValueError")

\* b"".join of build results, the first exception going through
RECURSIVE join(_)
join(parts) ==
    IF parts = <<>> THEN Built(<<>>)
    ELSE IF parts[1].err # "" THEN parts[1]
    ELSE LET t == join(Tail(parts)) IN
         IF t.err # "" THEN t ELSE Built(parts[1].data \o t.data)

RECURSIVE build_json(_)
RECURSIVE build_json_items(_)
RECURSIVE build_json_pairs(_)

\* b"".join(build_json(x) for x in obj) of build_set
build_json_items(items) ==
    IF items = <<>> THEN Built(<<>>)
    ELSE join(<<build_json(items[1]), build_json_items(Tail(items))>>)

\* The keys and values of build_hashmap, zipped and joined
build_json_pairs(pairs) ==
    IF pairs = <<>> THEN Built(<<>>)
    ELSE join(<<build_utf8_string(pairs[1][1]), build_json(pairs[1][2]),
                build_json_pairs(Tail(pairs))>>)

\* parser.build_json_array (build_set with build_json)
build_json_array(obj) ==
    join(<<Built(build_vlq(Len(obj.v))), build_json_items(obj.v)>>)

\* parser.build_json_object (build_hashmap with build_utf8_string, build_json)
build_json_object(obj) ==
    join(<<Built(build_vlq(Len(obj.v))), build_json_pairs(obj.v)>>)

\* parser.build_json: the tag byte, then the value
build_json(obj) ==
    LET tag == json_tag(obj) IN
    join(<<Built(<<tag>>),
           CASE tag = 1 -> Built(<<>>)
             [] tag = 2 -> build_with_struct(obj, "double")
             [] tag = 3 -> build_with_struct(obj, "bool")
             [] tag = 4 -> Built(build_signed_vlq(IF obj.t = "bool"
                                                  THEN (IF obj.v THEN 1 ELSE 0) ELSE obj.v))
             [] tag = 5 -> build_utf8_string(obj)
             [] tag = 6 -> build_json_array(obj)
             [] tag = 7 -> build_json_object(obj)
             [] OTHER   -> BuildRaised("TypeError")>>)

(***************************************************************************)
(* SpecCodec: one codec function applied to one input. codec.arg is the    *)
(* input, codec.built what the encoder made of it, codec.out what the      *)
(* decoder made of it.                                                     *)
(***************************************************************************)
\* The integers handed to build_signed_vlq: all the small ones, and those
\* around each length of the encoding up to the widest TLC computes with
\* (the encoder doubles its argument)
SvlqInputs ==
    (-130..130)
    \cup UNION {{Pow2(k) - 1, Pow2(k), -Pow2(k), -Pow2(k) - 1} : k \in {13, 20, 27}}
    \cup {Pow2(30) - 1, 1 - Pow2(30)}

CodecInput(kind, arg) == [pc |-> "input", kind |-> kind, arg |-> arg, built |-> <<>>, out |-> <<>>]

\* build_signed_vlq(n)
svlq_build ==
    /\ codec.pc = "input"
    /\ codec.kind = "svlq"
    /\ codec' = [codec EXCEPT !.pc = "built", !.built = Built(build_signed_vlq(codec.arg))]

\* parse_signed_vlq(BytesIO(b)) and read_vlq_signed(stream) on the bytes built
svlq_parse ==
    /\ codec.pc = "built"
    /\ codec.kind = "svlq"
    /\ codec' = [codec EXCEPT !.pc = "done",
                              !.out = [parse |-> parse_signed_vlq(codec.built.data),
                                       read |-> read_vlq_signed(codec.built.data)]]

\* The scalar TaggedJson values of the model: null, a double (pi), both
\* bools, integers of one and two bytes, and strings (empty, "k", e-acute)
JsonLeaves ==
    {PyNone, Py("float", <<64, 9, 33, 251, 84, 68, 45, 24>>),
     Py("bool", TRUE), Py("bool", FALSE),
     Py("int", 0), Py("int", 1), Py("int", -65),
     Py("str", <<>>), Py("str", <<107>>), Py("str", <<233>>)}

\* The values put side by side in a two-element array or object
JsonSiblings == {PyNone, Py("bool", TRUE), Py("int", 1), Py("str", <<107>>)}

\* The keys of the objects: "k" and "a"
JsonKeys == {Py("str", <<107>>), Py("str", <<97>>)}

\* The TaggedJson values nested at most d deep
RECURSIVE JsonValues(_)
JsonValues(d) ==
    IF d = 0 THEN JsonLeaves
    ELSE JsonLeaves
         \cup {Py("list", <<>>), Py("dict", <<>>)}
         \cup {Py("list", <<x>>) : x \in JsonValues(d - 1)}
         \cup {Py("list", <<x, y>>) : x \in JsonSiblings, y \in JsonSiblings}
         \cup {Py("dict", <<(<<k, x>>)>>) : k \in JsonKeys, x \in JsonValues(d - 1)}
         \* a dict holds a key once
         \cup UNION {{Py("dict", <<(<<kk[1], x>>), (<<kk[2], y>>)>>) :
                         x \in JsonSiblings, y \in JsonSiblings} :
                     kk \in {q \in JsonKeys \X JsonKeys : q[1] # q[2]}}

JsonInputs == JsonValues(MaxJsonDepth)

\* build_json(v)
json_build ==
    /\ codec.pc = "input"
    /\ codec.kind = "json"
    /\ codec' = [codec EXCEPT !.pc = "built", !.built = build_json(codec.arg)]

\* parse_json(BytesIO(b)) on the bytes built
json_parse ==
    /\ codec.pc = "built"
    /\ codec.kind = "json"
    /\ codec.built.err = ""
    /\ codec' = [codec EXCEPT !.pc = "done", !.out = parse_json(codec.built.data)]

(***************************************************************************)
(* Domain records and message bodies. A parsed dict with fixed keys is a   *)
(* record.                                                                 *)
(***************************************************************************)
\* data_type(stream) for each reader a message is made of; defined below,
\* after the readers of the domain records
RECURSIVE call_parse(_, _)

\* res = {} before the first read of a stream
res_empty(stream) == Parsed(<<>>, stream)

\* d[key] = the value read, the stream going on after it; the exception of
\* the read goes through
dict_put(d, key, r) ==
    IF r.err # "" THEN r
    ELSE Parsed([k \in (DOMAIN d.val) \cup {key} |-> IF k = key THEN r.val ELSE d.val[k]],
                r.rest)

\* d[key] = data_type(stream), unless an earlier statement raised
read_into(d, key, data_type) ==
    IF d.err # "" THEN d ELSE dict_put(d, key, call_parse(data_type, d.rest))

\* d[key] = data_type(stream) for each <<key, data_type>> in turn
RECURSIVE read_fields(_, _)
read_fields(d, fields) ==
    IF fields = <<>> THEN d
    ELSE read_fields(read_into(d, fields[1][1], fields[1][2]), Tail(fields))

\* data_type(obj) for the callables handed to build_maybe
call_build(data_type, obj) ==
    CASE data_type = "build_utf8_string" -> build_utf8_string(obj)
      [] data_type = "build_uuid"        -> build_uuid(obj)
      [] data_type = "vec2ui"            -> build_with_struct(obj, "vec2ui")
      [] OTHER                           -> build_with_struct(obj, "float")

\* The value after the flag of parse_maybe
maybe_value(flag, data_type) ==
    IF flag.err # "" THEN flag
    ELSE IF flag.val.v THEN call_parse(data_type, flag.rest) ELSE Parsed(PyNone, flag.rest)

\* parser.parse_maybe
parse_maybe(stream, data_type) == maybe_value(parse_with_struct(stream, "bool"), data_type)

\* parser.build_maybe
build_maybe(obj, data_type) ==
    IF obj # PyNone
    THEN LET r == call_build(data_type, obj) IN
         IF r.err # "" THEN r ELSE Built(<<1>> \o r.data)
    ELSE Built(<<0>>)

\* parser.parse_chat_header
parse_chat_header(stream) ==
    LET mode == read_into(res_empty(stream), "mode", "parse_byte")
        channel == IF mode.err # "" THEN mode
                   ELSE IF mode.val.mode.v > 1
                   THEN read_into(mode, "channel", "parse_utf8_string")
                   ELSE read_into(dict_put(mode, "channel", Parsed(Py("str", <<>>), mode.rest)),
                                  "unknown", "parse_byte")
    IN  read_into(channel, "client_id", "uint16")

\* obj[key] handed to an encoder of one argument; a key the dict lacks is
\* a KeyError
build_item(obj, key, encoder) ==
    IF key \notin DOMAIN obj THEN BuildRaised("KeyError")
    ELSE CASE encoder = "build_byte"        -> int_to_byte(obj[key])
           [] encoder = "build_utf8_string" -> build_utf8_string(obj[key])
           [] OTHER                         -> build_with_struct(obj[key], encoder)

\* parser.build_chat_header
build_chat_header(obj) ==
    LET mode == build_item(obj, "mode", "build_byte") IN
    IF mode.err # "" THEN mode
    ELSE join(<<mode,
                IF obj.mode.t = "int" /\ obj.mode.v > 1
                THEN build_item(obj, "channel", "build_utf8_string")
                ELSE build_item(obj, "unknown", "build_byte"),
                build_item(obj, "client_id", "uint16")>>)

\* parser.parse_celestial_coordinates
parse_celestial_coordinates(stream) ==
    read_fields(res_empty(stream),
                <<<<"coordinates", "vec3i">>, <<"planet", "int32">>, <<"satellite", "int32">>>>)

\* parser.build_celestial_coordinates
build_celestial_coordinates(obj) ==
    join(<<build_with_struct(obj.coordinates, "vec3i"),
           build_with_struct(obj.planet, "int32"),
           build_with_struct(obj.satellite, "int32")>>)

\* parser.parse_system_location
parse_system_location(stream) ==
    LET d == read_into(res_empty(stream), "type", "parse_byte")
    IN  IF d.err # "" THEN d
        ELSE CASE d.val.type.v = 0 -> d
               [] d.val.type.v = 1 ->
                    read_into(d, "coordinates", "parse_celestial_coordinates")
               [] d.val.type.v = 2 ->
                    read_fields(d, <<<<"coordinates", "parse_celestial_coordinates">>,
                                     <<"direction", "int32">>,
                                     <<"enter_time", "double">>,
                                     <<"enter_position", "vec2f">>>>)
               [] d.val.type.v = 3 -> read_into(d, "destination_id", "parse_uuid")
               [] d.val.type.v = 4 -> read_into(d, "location", "vec2f")
               [] OTHER -> Raised("TypeError")

\* parser.build_system_location
build_system_location(obj) ==
    LET dest_type == obj.type
        res == int_to_byte(dest_type)
    IN  CASE dest_type.v = 0 -> res
          [] dest_type.v = 1 -> join(<<res, build_celestial_coordinates(obj.coordinates)>>)
          [] dest_type.v = 2 ->
                join(<<res, build_celestial_coordinates(obj.coordinates),
                       build_with_struct(obj.direction, "int32"),
                       build_with_struct(obj.enter_time, "double"),
                       build_with_struct(obj.enter_position, "vec2f")>>)
          [] dest_type.v = 3 -> join(<<res, build_uuid(obj.destination_id)>>)
          [] dest_type.v = 4 -> join(<<res, build_with_struct(obj.location, "vec2f")>>)
          [] OTHER -> IF res.err # "" THEN res ELSE BuildRaised("TypeError")

\* parser.parse_warp_action
parse_warp_action(stream) ==
    LET d == read_into(res_empty(stream), "warp_type", "parse_byte")
        w == read_into(d, "world_type", "parse_byte")
    IN  IF d.err # "" THEN d
        ELSE CASE d.val.warp_type.v = 1 ->
                    IF w.err # "" THEN w
                    ELSE CASE w.val.world_type.v = 1 ->
                                read_fields(w, <<<<"celestial_coordinates",
                                                   "parse_celestial_coordinates">>,
                                                 <<"teleporter", "maybe_utf8_string">>>>)
                           [] w.val.world_type.v = 2 ->
                                read_fields(w, <<<<"ship_owner", "parse_uuid">>,
                                                 <<"start_position", "maybe_vec2ui">>>>)
                           [] w.val.world_type.v = 3 ->
                                read_fields(w, <<<<"world_name", "parse_utf8_string">>,
                                                 <<"instance_id", "maybe_uuid">>,
                                                 <<"level", "maybe_float">>,
                                                 <<"teleporter_id", "maybe_utf8_string">>>>)
                           [] OTHER -> Raised("TypeError")
               [] d.val.warp_type.v = 2 -> read_into(d, "player_id", "parse_uuid")
               [] d.val.warp_type.v = 3 -> read_into(d, "alias_type", "int32")
               [] OTHER -> Raised("TypeError")

\* parser.build_warp_action
build_warp_action(obj) ==
    LET warp_type == obj.warp_type
        res == int_to_byte(warp_type)
    IN  CASE warp_type.v = 1 ->
               LET world_type == obj.world_type
                   res2 == join(<<res, int_to_byte(world_type)>>)
               IN  CASE world_type.v = 1 ->
                          join(<<res2, build_celestial_coordinates(obj.celestial_coordinates),
                                 build_maybe(obj.teleporter, "build_utf8_string")>>)
                     [] world_type.v = 2 ->
                          join(<<res2, build_uuid(obj.ship_owner),
                                 build_maybe(obj.start_position, "vec2ui")>>)
                     [] world_type.v = 3 ->
                          join(<<res2, build_utf8_string(obj.world_name),
                                 build_maybe(obj.instance_id, "build_uuid"),
                                 build_maybe(obj.level, "float"),
                                 build_maybe(obj.teleporter_id, "build_utf8_string")>>)
                     [] OTHER -> IF res2.err # "" THEN res2 ELSE BuildRaised("TypeError")
          [] warp_type.v = 2 -> join(<<res, build_uuid(obj.player_id)>>)
          [] warp_type.v = 3 -> join(<<res, build_with_struct(obj.alias_type, "int32")>>)
          [] OTHER -> IF res.err # "" THEN res ELSE BuildRaised("TypeError")

\* The reader a parse_maybe field hands to parse_maybe, "" for a field that
\* is read without parse_maybe
maybe_type(data_type) ==
    CASE data_type = "maybe_utf8_string" -> "parse_utf8_string"
      [] data_type = "maybe_uuid"        -> "parse_uuid"
      [] data_type = "maybe_vec2ui"      -> "vec2ui"
      [] data_type = "maybe_float"       -> "float"
      [] OTHER                           -> ""

\* data_type(stream): a reader of this module by its name, parse_maybe with
\* the reader it is handed, or parse_with_struct with a struct_cache key
call_parse(data_type, stream) ==
    CASE maybe_type(data_type) # ""        -> parse_maybe(stream, maybe_type(data_type))
      [] data_type = "parse_byte"          -> parse_byte(stream)
      [] data_type = "parse_vlq"           -> parse_vlq(stream)
      [] data_type = "parse_utf8_string"   -> parse_utf8_string(stream)
      [] data_type = "parse_uuid"          -> parse_uuid(stream)
      [] data_type = "parse_json_array"    -> parse_json_array(stream)
      [] data_type = "parse_chat_header"   -> parse_chat_header(stream)
      [] data_type = "parse_celestial_coordinates" -> parse_celestial_coordinates(stream)
      [] data_type = "parse_system_location" -> parse_system_location(stream)
      [] data_type = "parse_warp_action"   -> parse_warp_action(stream)
      [] OTHER                             -> parse_with_struct(stream, data_type)

(***************************************************************************)
(* Message bodies and the registry parse_map.                              *)
(***************************************************************************)
\* PacketType values
PROTOCOL_REQUEST == 0
SERVER_DISCONNECT == 2
CONNECT_SUCCESS == 3
CONNECT_FAILURE == 4
CHAT_RECEIVED == 6
UNIVERSE_TIME_UPDATE == 7
PLAYER_WARP_RESULT == 9
PAUSE == 11
PLAYER_WARP == 16
FLY_SHIP == 17
CHAT_SENT == 18
CLIENT_CONTEXT_UPDATE == 20
WORLD_START == 21
STEP_UPDATE == 61

\* parse_map.get(type): "both" for a decoder and an encoder, "decode_only"
\* for (decoder, None), "none" for no entry
parse_map(type) ==
    IF type \in {SERVER_DISCONNECT, CONNECT_SUCCESS, CONNECT_FAILURE, CHAT_RECEIVED,
                 UNIVERSE_TIME_UPDATE, PLAYER_WARP_RESULT, FLY_SHIP, CHAT_SENT, PLAYER_WARP,
                 CLIENT_CONTEXT_UPDATE}
    THEN "both"
    ELSE IF type \in {PROTOCOL_REQUEST, 1, 5, 13, 15, WORLD_START, STEP_UPDATE}
    THEN "decode_only"
    ELSE "none"

\* parser.parse_connect_success
parse_connect_success(stream) ==
    read_fields(res_empty(stream),
                <<<<"client_id", "parse_vlq">>,
                  <<"server_uuid", "parse_uuid">>,
                  <<"planet_orbital_levels", "int32">>,
                  <<"satellite_orbital_levels", "int32">>,
                  <<"chunk_size", "int32">>,
                  <<"xy_coord_range", "vec2i">>,
                  <<"z_coord_range", "vec2i">>>>)

\* parser.build_connect_success
build_connect_success(obj) ==
    IF obj.client_id.t # "int" THEN BuildRaised("TypeError")
    ELSE join(<<Built(build_vlq(obj.client_id.v)),
                build_uuid(obj.server_uuid),
                build_with_struct(obj.planet_orbital_levels, "int32"),
                build_with_struct(obj.satellite_orbital_levels, "int32"),
                build_with_struct(obj.chunk_size, "int32"),
                build_with_struct(obj.xy_coord_range, "vec2i"),
                build_with_struct(obj.z_coord_range, "vec2i")>>)

\* parser.parse_chat_received
parse_chat_received(stream) ==
    read_fields(res_empty(stream),
                <<<<"header", "parse_chat_header">>, <<"name", "parse_utf8_string">>,
                  <<"junk", "parse_byte">>, <<"message", "parse_utf8_string">>>>)

\* parser.build_chat_received
build_chat_received(obj) ==
    join(<<build_chat_header(obj.header), build_utf8_string(obj.name),
           int_to_byte(obj.junk), build_utf8_string(obj.message)>>)

\* parser.parse_player_warp_result
parse_player_warp_result(stream) ==
    read_fields(res_empty(stream),
                <<<<"success", "bool">>, <<"warp_action", "parse_warp_action">>,
                  <<"warp_action_invalid", "bool">>>>)

\* parser.parse_player_warp
parse_player_warp(stream) ==
    read_fields(res_empty(stream),
                <<<<"warp_action", "parse_warp_action">>, <<"deploy", "bool">>>>)

\* parser.parse_fly_ship
parse_fly_ship(stream) ==
    read_fields(res_empty(stream),
                <<<<"system", "vec3i">>, <<"location", "parse_system_location">>>>)

\* parser.parse_chat_send
parse_chat_send(stream) ==
    read_fields(res_empty(stream),
                <<<<"text", "parse_utf8_string">>, <<"send_mode", "parse_byte">>>>)

\* parser.parse_client_context_set
parse_client_context_set(stream, direction) ==
    LET length == parse_vlq(stream)
        sub_length == parse_vlq(length.rest)
    IN  IF direction # "TO_CLIENT"
        THEN read_into(Parsed([_length |-> length.val], length.rest),
                       "rpcs", "parse_json_array")
        ELSE IF sub_length.val.v = 0
        THEN Parsed([_length |-> length.val, _sub_length |-> sub_length.val,
                     _unknown |-> Py("bytes", sub_length.rest)], <<>>)
        ELSE read_into(Parsed([_length |-> length.val, _sub_length |-> sub_length.val],
                              sub_length.rest),
                       "rpcs", "parse_json_array")

\* The bytes of an encoding after their number as a VLQ
with_length(res) ==
    IF res.err # "" THEN res ELSE Built(build_vlq(Len(res.data)) \o res.data)

\* parser.build_client_context_set
build_client_context_set(obj, direction) ==
    IF direction # "TO_SERVER" THEN BuildRaised("NotImplementedError")
    ELSE with_length(build_json_array(obj.rpcs))

\* A reader for a message that is one field
parse_field(r, key) ==
    IF r.err # "" THEN r ELSE Parsed([k \in {key} |-> r.val], r.rest)

\* parse_funcs[0](data_stream, direction) for the types that have an
\* encoder as well
parse_funcs_0(type, stream, direction) ==
    CASE type = SERVER_DISCONNECT    -> parse_field(parse_utf8_string(stream), "reason")
      [] type = CONNECT_SUCCESS      -> parse_connect_success(stream)
      [] type = CONNECT_FAILURE      -> parse_field(parse_utf8_string(stream), "reason")
      [] type = CHAT_RECEIVED        -> parse_chat_received(stream)
      [] type = UNIVERSE_TIME_UPDATE -> parse_field(parse_with_struct(stream, "double"), "timestamp")
      [] type = PLAYER_WARP_RESULT   -> parse_player_warp_result(stream)
      [] type = FLY_SHIP             -> parse_fly_ship(stream)
      [] type = CHAT_SENT            -> parse_chat_send(stream)
      [] type = PLAYER_WARP          -> parse_player_warp(stream)
      [] OTHER                       -> parse_client_context_set(stream, direction)

\* parse_funcs[1](parsed_data, direction); a key the dict lacks is a KeyError
parse_funcs_1(type, obj, direction) ==
    LET has(keys) == keys \subseteq DOMAIN obj IN
    CASE type \in {SERVER_DISCONNECT, CONNECT_FAILURE} ->
            IF ~has({"reason"}) THEN BuildRaised("KeyError")
            ELSE build_utf8_string(obj.reason)
      [] type = CONNECT_SUCCESS ->
            IF ~has({"client_id", "server_uuid", "planet_orbital_levels",
                     "satellite_orbital_levels", "chunk_size", "xy_coord_range",
                     "z_coord_range"})
            THEN BuildRaised("KeyError")
            ELSE build_connect_success(obj)
      [] type = CHAT_RECEIVED ->
            IF ~has({"header", "name", "junk", "message"}) THEN BuildRaised("KeyError")
            ELSE build_chat_received(obj)
      [] type = UNIVERSE_TIME_UPDATE ->
            IF ~has({"timestamp"}) THEN BuildRaised("KeyError")
            ELSE build_with_struct(obj.timestamp, "double")
      [] type = PLAYER_WARP_RESULT ->
            IF ~has({"success", "warp_action", "warp_action_invalid"})
            THEN BuildRaised("KeyError")
            ELSE join(<<build_with_struct(obj.success, "bool"),
                        build_warp_action(obj.warp_action),
                        build_with_struct(obj.warp_action_invalid, "bool")>>)
      [] type = FLY_SHIP ->
            IF ~has({"system", "location"}) THEN BuildRaised("KeyError")
            ELSE join(<<build_with_struct(obj.system, "vec3i"),
                        build_system_location(obj.location)>>)
      [] type = CHAT_SENT ->
            IF ~has({"text", "send_mode"}) THEN BuildRaised("KeyError")
            ELSE join(<<build_utf8_string(obj.text), int_to_byte(obj.send_mode)>>)
      [] type = PLAYER_WARP ->
            IF ~has({"warp_action", "deploy"}) THEN BuildRaised("KeyError")
            ELSE join(<<build_warp_action(obj.warp_action),
                        build_with_struct(obj.deploy, "bool")>>)
      [] OTHER ->
            IF direction # "TO_SERVER" THEN BuildRaised("NotImplementedError")
            ELSE IF ~has({"rpcs"}) THEN BuildRaised("KeyError")
            ELSE build_client_context_set(obj, direction)

(***************************************************************************)
(* Message bodies through their decoder and encoder, and Packet.build()    *)
(* through the registry.                                                   *)
(***************************************************************************)
\* Sixteen bytes, as a uuid field holds them
UuidBytes == [i \in 1..16 |-> i - 1]

\* One int32 on the wire
I32(n) == <<0, 0, 0, n>>

\* Bodies of the ten types that have a decoder and an encoder: for each, at
\* least one body as the game writes it; then bodies the decoder accepts
\* although the game would write them otherwise (a string shorter than its
\* length prefix, trailing bytes, a length with a leading 0x80, a bool byte
\* of 2); then a body the decoder rejects
SampleBodies ==
    {[type |-> SERVER_DISCONNECT, direction |-> "TO_CLIENT", body |-> <<3, 98, 121, 101>>],
     [type |-> SERVER_DISCONNECT, direction |-> "TO_CLIENT", body |-> <<0>>],
     [type |-> CONNECT_SUCCESS, direction |-> "TO_CLIENT",
      body |-> <<1>> \o UuidBytes \o I32(1) \o I32(1) \o I32(1) \o I32(1) \o I32(2) \o I32(1) \o I32(2)],
     [type |-> CONNECT_FAILURE, direction |-> "TO_CLIENT", body |-> <<3, 98, 121, 101>>],
     [type |-> CHAT_RECEIVED, direction |-> "TO_CLIENT",
      body |-> <<2, 1, 99, 0, 7, 1, 110, 0, 2, 104, 105>>],
     [type |-> CHAT_RECEIVED, direction |-> "TO_CLIENT", body |-> <<1, 9, 0, 7, 0, 0, 0>>],
     [type |-> UNIVERSE_TIME_UPDATE, direction |-> "TO_CLIENT",
      body |-> <<64, 9, 33, 251, 84, 68, 45, 24>>],
     [type |-> PLAYER_WARP_RESULT, direction |-> "TO_CLIENT",
      body |-> <<1, 1, 3, 1, 119, 0, 0, 0, 0>>],
     [type |-> PLAYER_WARP_RESULT, direction |-> "TO_CLIENT",
      body |-> <<1, 2>> \o UuidBytes \o <<0>>],
     [type |-> FLY_SHIP, direction |-> "TO_SERVER",
      body |-> I32(1) \o I32(2) \o I32(3) \o <<0>>],
     [type |-> FLY_SHIP, direction |-> "TO_SERVER",
      body |-> I32(1) \o I32(2) \o I32(3) \o <<3>> \o UuidBytes],
     [type |-> CHAT_SENT, direction |-> "TO_SERVER", body |-> <<2, 104, 105, 0>>],
     [type |-> PLAYER_WARP, direction |-> "TO_SERVER",
      body |-> <<1, 3, 1, 119, 0, 0, 1, 1, 116, 1>>],
     [type |-> PLAYER_WARP, direction |-> "TO_SERVER",
      body |-> <<1, 1>> \o I32(1) \o I32(2) \o I32(3) \o I32(4) \o I32(5) \o <<0, 1>>],
     [type |-> PLAYER_WARP, direction |-> "TO_SERVER", body |-> <<2>> \o UuidBytes \o <<0>>],
     [type |-> PLAYER_WARP, direction |-> "TO_SERVER", body |-> <<3>> \o I32(2) \o <<0>>],
     [type |-> CLIENT_CONTEXT_UPDATE, direction |-> "TO_SERVER", body |-> <<3, 1, 3, 1>>],
     [type |-> CLIENT_CONTEXT_UPDATE, direction |-> "TO_SERVER", body |-> <<1, 0>>],
     [type |-> CLIENT_CONTEXT_UPDATE, direction |-> "TO_CLIENT", body |-> <<4, 3, 1, 3, 1>>],
     [type |-> SERVER_DISCONNECT, direction |-> "TO_CLIENT", body |-> <<5, 98>>],
     [type |-> CHAT_SENT, direction |-> "TO_SERVER", body |-> <<2, 104, 105, 0, 9>>],
     [type |-> CHAT_SENT, direction |-> "TO_SERVER", body |-> <<128, 2, 104, 105, 0>>],
     [type |-> PLAYER_WARP, direction |-> "TO_SERVER",
      body |-> <<1, 3, 1, 119, 0, 0, 1, 1, 116, 2>>],
     [type |-> PLAYER_WARP, direction |-> "TO_SERVER", body |-> <<3, 2, 0>>]}

\* parse_funcs[0](BytesIO(body), direction)
body_parse ==
    /\ codec.pc = "input"
    /\ codec.kind = "body"
    /\ codec' = [codec EXCEPT !.pc = "parsed",
                              !.out = parse_funcs_0(codec.arg.type, codec.arg.body,
                                                    codec.arg.direction)]

\* parse_funcs[1](parsed, direction) on what the decoder returned
body_build ==
    /\ codec.pc = "parsed"
    /\ codec.kind = "body"
    /\ codec.out.err = ""
    /\ codec' = [codec EXCEPT !.pc = "done",
                              !.built = parse_funcs_1(codec.arg.type, codec.out.val,
                                                      codec.arg.direction)]

\* Packets with a parsed value to build from: three types with a decoder
\* only, one type the registry does not know, and types with an encoder
\* whose parsed value the encoder takes, lacks a key of, or cannot encode
BuildCases ==
    <<[type |-> STEP_UPDATE, direction |-> "TO_SERVER", body |-> <<5>>,
       parsed |-> [remote_step |-> Py("int", 5)]],
      [type |-> WORLD_START, direction |-> "TO_CLIENT", body |-> <<7, 0>>,
       parsed |-> [template_data |-> PyNone]],
      [type |-> PROTOCOL_REQUEST, direction |-> "TO_SERVER", body |-> I32(9),
       parsed |-> [request_protocol_version |-> Py("int", 9)]],
      [type |-> PAUSE, direction |-> "TO_SERVER", body |-> <<1>>,
       parsed |-> <<>>],
      [type |-> CONNECT_FAILURE, direction |-> "TO_CLIENT", body |-> <<3, 98, 121, 101>>,
       parsed |-> [reason |-> Py("str", <<110, 111>>)]],
      [type |-> CHAT_SENT, direction |-> "TO_SERVER", body |-> <<2, 104, 105, 0>>,
       parsed |-> [text |-> Py("str", <<111, 104>>), send_mode |-> Py("int", 1)]],
      [type |-> CONNECT_FAILURE, direction |-> "TO_CLIENT", body |-> <<3, 98, 121, 101>>,
       parsed |-> <<>>],
      [type |-> CONNECT_FAILURE, direction |-> "TO_CLIENT", body |-> <<3, 98, 121, 101>>,
       parsed |-> [reason |-> Py("CommandSyntaxError", <<>>)]],
      [type |-> CLIENT_CONTEXT_UPDATE, direction |-> "TO_CLIENT", body |-> <<4, 3, 1, 3, 1>>,
       parsed |-> [rpcs |-> Py("list", <<>>)]]>>

\* The Packet read_packet makes of the frame of a case, with the parsed
\* value of the case
BuildInput(case, compressed) ==
    LET wire_body == IF compressed THEN compress(case.body) ELSE case.body
        frame == <<case.type>>
                 \o build_signed_vlq(IF compressed THEN -Len(wire_body) ELSE Len(wire_body))
                 \o wire_body
    IN  [packet |-> read_packet_from(frame, case.direction).packet,
         parsed_data |-> case.parsed]

\* The end of build_packet for the encoder's result enc: a TypeError is
\* turned into NotImplementedError, any other exception leaves, and the
\* packet is then as `left`; else the frame is rebuilt from the bytes
build_result(p, left, enc) ==
    IF enc.err = "TypeError" THEN [raised |-> "NotImplementedError", packet |-> left]
    ELSE IF enc.err # "" THEN [raised |-> enc.err, packet |-> left]
    ELSE [raised |-> "", packet |-> build_packet(p, enc.data)]

\* packet.build() with a body reset before the encoder is looked up
Packet_build_reset_first(p, parsed_data) ==
    IF parse_map(p.type) # "both"
    THEN [raised |-> "NotImplementedError", packet |-> [p EXCEPT !.data = <<>>, !.size = 0]]
    ELSE build_result(p, [p EXCEPT !.data = <<>>, !.size = 0],
                      parse_funcs_1(p.type, parsed_data, p.direction))

\* packet.build(), that is parser.build_packet(packet): no entry raises
\* NotImplementedError; calling the None of a decoder-only entry is a
\* TypeError, which is turned into NotImplementedError like any TypeError of
\* an encoder; any other exception of the encoder leaves; in each of these
\* the assignment to packet.data has not happened
Packet_build(p, parsed_data) ==
    IF parse_map(p.type) # "both"
    THEN [raised |-> "NotImplementedError", packet |-> p]
    ELSE build_result(p, p, parse_funcs_1(p.type, parsed_data, p.direction))

\* await packet.build()
packet_build ==
    /\ codec.pc = "input"
    /\ codec.kind = "build"
    /\ codec' = [codec EXCEPT !.pc = "done",
                              !.out = Packet_build(codec.arg.packet, codec.arg.parsed_data)]


\* The program after PluginManager.__init__, no connection accepted
Booted ==
    /\ plugin_hooks = CachePluginHooks
    /\ event_hooks = detect_event_hooks([e \in PacketTypes |-> <<>>], plugin_hooks)
    /\ commands = register_plugin(<<>>, PluginCommands)
    /\ pc = "idle"
    /\ wire = NoFrame
    /\ packet = NoPacket
    /\ idx = 0
    /\ send_ahead = TRUE
    /\ invoked = <<>>
    /\ returned = <<>>
    /\ cmd_result = ""
    /\ server_out = <<>>
    /\ client_out = <<>>
    /\ task = "server_listener"
    /\ alive = Tasks
    /\ InitCacheVars
    /\ NoSession

InitCodec ==
    /\ Booted
    /\ NoSends
    /\ registered = <<>>
    /\ plugin_classes = <<>>
    /\ plugins = <<>>
    /\ pk = <<>>
    /\ \/ codec \in {CodecInput("svlq", n) : n \in SvlqInputs}
       \/ codec \in {CodecInput("json", v) : v \in JsonInputs}
       \/ codec \in {CodecInput("body", b) : b \in SampleBodies}
       \/ \E i \in 1..Len(BuildCases), c \in BOOLEAN :
             codec = CodecInput("build", BuildInput(BuildCases[i], c))

NextCodec ==
    \/ svlq_build /\ UNCHANGED <<dispatchVars, cacheVars, relayVars, registered, plugin_classes, plugins, pk, sendVars>>
    \/ svlq_parse /\ UNCHANGED <<dispatchVars, cacheVars, relayVars, registered, plugin_classes, plugins, pk, sendVars>>
    \/ json_build /\ UNCHANGED <<dispatchVars, cacheVars, relayVars, registered, plugin_classes, plugins, pk, sendVars>>
    \/ json_parse /\ UNCHANGED <<dispatchVars, cacheVars, relayVars, registered, plugin_classes, plugins, pk, sendVars>>
    \/ body_parse /\ UNCHANGED <<dispatchVars, cacheVars, relayVars, registered, plugin_classes, plugins, pk, sendVars>>
    \/ body_build /\ UNCHANGED <<dispatchVars, cacheVars, relayVars, registered, plugin_classes, plugins, pk, sendVars>>
    \/ packet_build /\ UNCHANGED <<dispatchVars, cacheVars, relayVars, registered, plugin_classes, plugins, pk, sendVars>>

SpecCodec == InitCodec /\ [][NextCodec]_vars

(***************************************************************************)
(* Properties of the structured codec (SpecCodec).                         *)
(***************************************************************************)
\* C21: decoding the signed-VLQ encoding of n gives n back, with the
\* in-memory parser (parse_signed_vlq) and with the stream reader
\* (read_vlq_signed) alike, both taking exactly the bytes of the encoding;
\* zero is encoded as the single byte 0x00.
C21_SignedVlqRoundTrip ==
    (codec.kind = "svlq" /\ codec.pc = "done") =>
        /\ codec.out.parse.err = ""
        /\ codec.out.parse.val = Py("int", codec.arg)
        /\ codec.out.parse.rest = <<>>
        /\ codec.out.read.ok
        /\ codec.out.read.value = codec.arg
        /\ codec.out.read.raw_bytes = codec.built.data
        /\ codec.out.read.rest = <<>>
        /\ codec.arg = 0 => codec.built.data = <<0>>

\* A negative number whose encoding takes four bytes has been decoded.
C21_Witness ==
    /\ codec.kind = "svlq"
    /\ codec.pc = "done"
    /\ codec.arg < 0
    /\ Len(codec.built.data) = 4

\* C23: decoding the encoding of a TaggedJson value gives an equal value:
\* the same variant at every node (a bool stays a bool, an integer an
\* integer), the same elements, and the keys of every object in the same
\* order.
C23_JsonRoundTrip ==
    (codec.kind = "json" /\ codec.pc \in {"built", "done"}) =>
        /\ codec.built.err = ""
        /\ codec.pc = "done" =>
              /\ codec.out.err = ""
              /\ codec.out.val = codec.arg
              /\ codec.out.rest = <<>>

\* An object of two keys, "k" before "a", holding a bool, has been decoded.
C23_Witness ==
    /\ codec.kind = "json"
    /\ codec.pc = "done"
    /\ codec.arg.t = "dict"
    /\ Len(codec.arg.v) = 2
    /\ codec.arg.v[1][1] = Py("str", <<107>>)
    /\ codec.arg.v[2][1] = Py("str", <<97>>)
    /\ codec.arg.v[1][2] = Py("bool", TRUE)
    /\ codec.out.val.t = "dict"


\* C22: for every message type with a decoder and an encoder (client
\* context updates in the to-server direction only) and every body the
\* decoder accepts, encoding the decoded value succeeds and gives the body
\* back byte for byte.
C22_BodyRoundTrip ==
    (/\ codec.kind = "body"
     /\ codec.pc = "done"
     /\ codec.arg.type = CLIENT_CONTEXT_UPDATE => codec.arg.direction = "TO_SERVER") =>
        /\ codec.built.err = ""
        /\ codec.built.data = codec.arg.body

\* C29: build() on a message whose type has no encoder (a decoder-only
\* entry of the registry, or no entry at all) raises NotImplementedError and
\* leaves the body, the size and the original frame of the message as they
\* were.
C29_BuildWithoutEncoder ==
    (/\ codec.kind = "build"
     /\ codec.pc = "done"
     /\ parse_map(codec.arg.packet.type) # "both") =>
        /\ codec.out.raised = "NotImplementedError"
        /\ codec.out.packet.data = codec.arg.packet.data
        /\ codec.out.packet.size = codec.arg.packet.size
        /\ codec.out.packet.original_data = codec.arg.packet.original_data

\* build() has failed on a compressed STEP_UPDATE message, which kept its
\* one-byte body and its frame.
C29_Witness ==
    /\ codec.kind = "build"
    /\ codec.pc = "done"
    /\ codec.arg.packet.type = STEP_UPDATE
    /\ codec.arg.packet.compressed
    /\ codec.out.raised = "NotImplementedError"
    /\ codec.out.packet.data = <<5>>
    /\ Len(codec.out.packet.original_data) > 3


(***************************************************************************)
(* Decode errors in the hook chain (SpecHooks).                            *)
(***************************************************************************)
\* No hook of the chain that ran returned a false value
NoVeto == \A i \in 1..Len(returned) : returned[i] \in {"True", "raise"}

\* The frame read is the last thing written to the peer of the reading task
ForwardedRaw ==
    IF task = "server_listener"
    THEN server_out # <<>> /\ server_out[Len(server_out)] = wire
    ELSE client_out # <<>> /\ client_out[Len(client_out)] = wire

RegFns ==
    {[name |-> n, aliases |-> al, syntax |-> "", perms |-> {}, priority |-> p, owner |-> o] :
        n \in {<<"a">>, <<"b">>},
        al \in {<<>>, << <<"A">> >>, << <<"b">> >>},
        p \in {0, 1},
        o \in {"plugin_1", "plugin_2"}}

\* One call of register as the log of the registrar shows it: the name, the
\* entry found, the entry left, and whether the entry found had been put
\* there by a registration that was not an alias
RegCall(table, direct, fn, name, is_alias) ==
    LET after == register_name(table, fn, name, is_alias) IN
    [fn |-> fn, name |-> name, is_alias |-> is_alias,
     existed |-> name \in DOMAIN table,
     old |-> IF name \in DOMAIN table THEN table[name] ELSE fn,
     was_direct |-> name \in direct,
     new |-> after[name]]

\* The names whose entry was written by a registration that was not an alias
direct_after(table, direct, fn, name, is_alias) ==
    LET after == register_name(table, fn, name, is_alias)
        written == name \notin DOMAIN table \/ after[name] # table[name]
    IN  IF ~is_alias /\ after[name] = fn THEN direct \cup {name}
        ELSE IF is_alias /\ written THEN direct \ {name}
        ELSE direct

\* The calls of register for the aliases, in order
RECURSIVE alias_calls(_, _, _, _)
alias_calls(table, direct, fn, aliases) ==
    IF aliases = <<>> THEN [calls |-> <<>>, direct |-> direct]
    ELSE LET name == lower(aliases[1])
             rest == alias_calls(register_name(table, fn, name, TRUE),
                                 direct_after(table, direct, fn, name, TRUE),
                                 fn, Tail(aliases))
         IN  [calls |-> <<RegCall(table, direct, fn, name, TRUE)>> \o rest.calls,
              direct |-> rest.direct]

\* register(mth, mth.name.lower()) with the calls it makes for the aliases
register_calls(table, direct, fn) ==
    LET name == lower(fn.name)
        rest == alias_calls(register_name(table, fn, name, FALSE),
                            direct_after(table, direct, fn, name, FALSE),
                            fn, fn.aliases)
    IN  [calls |-> <<RegCall(table, direct, fn, name, FALSE)>> \o rest.calls,
         direct |-> rest.direct]

\* register_plugin, one @Command method
register_command ==
    /\ registered.count < MaxRegisters
    /\ \E fn \in RegFns :
          LET log == register_calls(commands, registered.direct, fn) IN
          /\ commands' = register(commands, fn, lower(fn.name), FALSE)
          /\ registered' = [count |-> registered.count + 1, direct |-> log.direct,
                            calls |-> log.calls]
    /\ UNCHANGED <<plugin_hooks, event_hooks, pc, wire, packet, idx, send_ahead, invoked,
                   returned, cmd_result, server_out, client_out, task, alive>>
    /\ UNCHANGED <<cacheVars, relayVars, codec, plugin_classes, plugins, pk, sendVars>>

\* The program after CommandDispatcher.__init__: no plugin loaded, no
\* command registered, no connection accepted
Constructed ==
    /\ plugin_hooks = <<>>
    /\ event_hooks = [e \in PacketTypes |-> <<>>]
    /\ commands = <<>>
    /\ pc = "boot"
    /\ wire = NoFrame
    /\ packet = NoPacket
    /\ idx = 0
    /\ send_ahead = TRUE
    /\ invoked = <<>>
    /\ returned = <<>>
    /\ cmd_result = ""
    /\ server_out = <<>>
    /\ client_out = <<>>
    /\ task = "server_listener"
    /\ alive = Tasks
    /\ InitCacheVars
    /\ NoSession

InitRegister ==
    /\ Constructed
    /\ NoSends
    /\ registered = [count |-> 0, direct |-> {}, calls |-> <<>>]
    /\ codec = <<>>
    /\ plugin_classes = <<>>
    /\ plugins = <<>>
    /\ pk = <<>>

NextRegister == register_command

SpecRegister == InitRegister /\ [][NextRegister]_vars

(***************************************************************************)
(* Properties of the registrar (SpecRegister).                             *)
(***************************************************************************)
\* C25: a name whose entry was installed by a registration that was not an
\* alias keeps that entry through every alias registration, whatever the
\* priorities of the two commands.
C25_AliasNeverReplacesDirect ==
    \A i \in 1..Len(registered.calls) :
        LET call == registered.calls[i] IN
        (call.is_alias /\ call.was_direct) => call.new = call.old

\* An alias of priority 1 was registered for a name that a command of
\* priority 0 of another plugin holds directly.
C25_Witness ==
    \E i \in 1..Len(registered.calls) :
        LET call == registered.calls[i] IN
        /\ call.is_alias
        /\ call.was_direct
        /\ call.fn.priority = 1
        /\ call.old.priority = 0
        /\ call.fn.owner # call.old.owner

\* C26: a register call for a name that is in the table leaves the name
\* with the handler of strictly higher priority, the existing one or the
\* new one; only an alias registered for a name that is held directly
\* leaves the existing handler whatever the priorities.
C26_HigherPriorityWins ==
    \A i \in 1..Len(registered.calls) :
        LET call == registered.calls[i] IN
        call.existed =>
            IF call.is_alias /\ call.was_direct THEN call.new = call.old
            ELSE /\ call.fn.priority > call.old.priority => call.new = call.fn
                 /\ call.fn.priority < call.old.priority => call.new = call.old


(***************************************************************************)
(* Commands that raise (Spec).                                             *)
(***************************************************************************)
\* The replies written to the client whose text follows one of the formats
RepliesWith(fmts) ==
    {m \in Range(client_out) : m.type = "CHAT_RECEIVED" /\ m.message.fmt \in fmts}

\* C27: when the body of a command raises, run_command lets nothing out
\* (command_check returns its False to the chain) and a reply is written to
\* the sender: the error text with the syntax template behind the prefix
\* for a syntax error (the error text alone when the command has no
\* template), the denial with the detail for a permission error, the
\* generic failure for anything else.
C27_RaisingCommandReplies ==
    (/\ pc = "done"
     /\ ChatFrame(wire)
     /\ cmd_result \in {"CommandSyntaxError", "UserPermissionError", "Exception"}) =>
        /\ \A i \in 1..Len(invoked) :
              invoked[i].name = "command_check" => returned[i] = "False"
        /\ cmd_result = "CommandSyntaxError" =>
              RepliesWith({"{err}\nSyntax: {deco}{fn.name} {fn.syntax}.", "{err}"}) # {}
        /\ cmd_result = "UserPermissionError" =>
              RepliesWith({"You do not have permission to use this command.{err}"}) # {}
        /\ cmd_result = "Exception" =>
              RepliesWith({"Error occurred while running command."}) # {}


(***************************************************************************)
(* Packet.copy (SpecCopy): a message that was read and parsed, its copy,   *)
(* and the changes a handler can make to either. Dicts are objects on a    *)
(* heap, pk.heap[ref]; a Packet holds the references of its parsed_data    *)
(* and of its edited_data.                                                 *)
(***************************************************************************)
\* The messages copied: a chat line and a connection refusal
CopyCases ==
    <<[type |-> CHAT_SENT, direction |-> "TO_SERVER", body |-> <<2, 104, 105, 0>>],
      [type |-> CONNECT_FAILURE, direction |-> "TO_CLIENT", body |-> <<3, 98, 121, 101>>]>>

\* The key of the parsed value a handler changes, and what it writes there
EditKey(type) == IF type = CHAT_SENT THEN "text" ELSE "reason"

EditValues == {Py("str", <<97>>), Py("str", <<98>>)}

\* A Packet object: the fields read_packet sets, and the references of the
\* two dicts
PacketObject(p, parsed_data, edited_data) ==
    [type |-> p.type, data |-> p.data, direction |-> p.direction, size |-> p.size,
     compressed |-> p.compressed, original_data |-> p.original_data,
     parsed_data |-> parsed_data, edited_data |-> edited_data]

\* read_packet and packet.parse() on the frame of a case: the dict the
\* decoder returned is heap[1], the edited_data = {} of __init__ is heap[2]
ParsedPacket(case, compressed) ==
    LET in == BuildInput([type |-> case.type, direction |-> case.direction,
                          body |-> case.body, parsed |-> <<>>], compressed)
    IN  [heap |-> <<parse_funcs_0(case.type, in.packet.data, case.direction).val, <<>> >>,
         msgs |-> [w \in {"orig"} |-> PacketObject(in.packet, 1, 2)],
         last |-> [who |-> "none", other |-> <<>>]]

\* The two messages
Other(who) == IF who = "orig" THEN "copy" ELSE "orig"

\* What a message shows: its parsed value, its body, its original frame
View(who) ==
    [parsed_data |-> pk.heap[pk.msgs[who].parsed_data],
     data |-> pk.msgs[who].data,
     original_data |-> pk.msgs[who].original_data]

\* d[key] = value on a dict
dict_setitem(d, key, value) == [k \in DOMAIN d \cup {key} |-> IF k = key THEN value ELSE d[k]]

\* d.update(e)
dict_update(d, e) == [k \in DOMAIN d \cup DOMAIN e |-> IF k \in DOMAIN e THEN e[k] ELSE d[k]]

\* copy = packet.copy(): a new Packet with the same field values, the
\* parsed_data argument being the dict of the original, and a new empty
\* edited_data
pk_copy ==
    /\ DOMAIN pk.msgs = {"orig"}
    /\ pk' = [pk EXCEPT !.heap = Append(pk.heap, <<>>),
                        !.msgs = [w \in {"orig", "copy"} |->
                                     IF w = "orig" THEN pk.msgs["orig"]
                                     ELSE PacketObject(pk.msgs["orig"],
                                                       pk.msgs["orig"].parsed_data,
                                                       Len(pk.heap) + 1)]]

\* packet.parsed_data[key] = value, by a handler holding one of the two
pk_set_parsed ==
    /\ DOMAIN pk.msgs = {"orig", "copy"}
    /\ \E who \in {"orig", "copy"}, v \in EditValues :
          LET p == pk.msgs[who] IN
          pk' = [pk EXCEPT !.heap[p.parsed_data] = dict_setitem(@, EditKey(p.type), v),
                           !.last = [who |-> who, other |-> View(Other(who))]]

\* packet.edited_data[key] = value
pk_set_edited ==
    /\ DOMAIN pk.msgs = {"orig", "copy"}
    /\ \E who \in {"orig", "copy"}, v \in EditValues :
          LET p == pk.msgs[who] IN
          pk' = [pk EXCEPT !.heap[p.edited_data] = dict_setitem(@, EditKey(p.type), v),
                           !.last = [who |-> who, other |-> View(Other(who))]]

\* await packet.build_edits()
pk_build_edits ==
    /\ DOMAIN pk.msgs = {"orig", "copy"}
    /\ \E who \in {"orig", "copy"} :
          LET p == pk.msgs[who]
              merged == dict_update(pk.heap[p.parsed_data], pk.heap[p.edited_data])
          IN  IF pk.heap[p.edited_data] # <<>>
              THEN pk' = [pk EXCEPT !.heap[p.parsed_data] = merged,
                                    !.msgs[who] = Packet_build(p, merged).packet,
                                    !.last = [who |-> who, other |-> View(Other(who))]]
              ELSE pk' = [pk EXCEPT !.last = [who |-> who, other |-> View(Other(who))]]

InitCopy ==
    /\ Booted
    /\ NoSends
    /\ \E i \in 1..Len(CopyCases), c \in BOOLEAN : pk = ParsedPacket(CopyCases[i], c)
    /\ codec = <<>>
    /\ registered = <<>>
    /\ plugin_classes = <<>>
    /\ plugins = <<>>

NextCopy ==
    \/ pk_copy /\ UNCHANGED <<dispatchVars, cacheVars, relayVars, codec, registered, plugin_classes, plugins, sendVars>>
    \/ pk_set_parsed /\ UNCHANGED <<dispatchVars, cacheVars, relayVars, codec, registered, plugin_classes, plugins, sendVars>>
    \/ pk_set_edited /\ UNCHANGED <<dispatchVars, cacheVars, relayVars, codec, registered, plugin_classes, plugins, sendVars>>
    \/ pk_build_edits /\ UNCHANGED <<dispatchVars, cacheVars, relayVars, codec, registered, plugin_classes, plugins, sendVars>>

SpecCopy == InitCopy /\ [][NextCopy]_vars

(***************************************************************************)
(* Properties of Packet.copy (SpecCopy).                                   *)
(***************************************************************************)
\* C28: after copy, a change of the parsed value or of the pending edits of
\* one of the two messages, or build_edits on it, leaves the parsed value,
\* the body and the original frame of the other as they were.
C28_CopyIndependent ==
    pk.last.who # "none" => View(Other(pk.last.who)) = pk.last.other


(***************************************************************************)
(* The plugin loader (SpecLoader): the plugin classes found in the plugin  *)
(* folders are instantiated one by one, then detect_event_hooks collects   *)
(* the hooks and the commands of every plugin of the table.                *)
(***************************************************************************)
\* The command a plugin class brings, if it brings one
ClassCommand(i, has) ==
    IF has
    THEN <<[name |-> IF i % 2 = 1 THEN <<"a">> ELSE <<"b">>, aliases |-> <<>>, syntax |-> "",
            perms |-> {}, priority |-> 0, owner |-> PluginNames[i]]>>
    ELSE <<>>

\* The plugin classes of a folder: class i is named PluginNames[i], declares
\* no dependency, one on the first plugin, or one on a plugin that no folder
\* holds, and has one event hook and at most one command
PluginClassLists ==
    UNION {[1..n -> [depends : {{}, {"plugin_1"}, {"plugin_9"}},
                     event : {"CHAT_SENT", "WORLD_START"},
                     priority : {1, 100},
                     command : BOOLEAN]] : n \in 1..MaxPluginHooks}

\* load_plugin for the module of the next class: self.plugins[obj.name] = obj()
load_plugin ==
    /\ pc = "boot"
    /\ plugins.next <= Len(plugin_classes)
    /\ plugins' = [next |-> plugins.next + 1,
                   table |-> (PluginNames[plugins.next] :> plugin_classes[plugins.next])
                             @@ plugins.table]
    /\ UNCHANGED <<dispatchVars, cacheVars, relayVars, codec, registered, plugin_classes, pk, sendVars>>

\* The indices of the classes whose instance is in the table, in
\* plugins.values() order
RECURSIVE LoadedFrom(_)
LoadedFrom(i) ==
    IF i > Len(plugin_classes) THEN <<>>
    ELSE (IF PluginNames[i] \in DOMAIN plugins.table THEN <<i>> ELSE <<>>) \o LoadedFrom(i + 1)

\* The commands of the plugins of the table, in plugins.values() order
RECURSIVE CommandsOf(_)
CommandsOf(idxs) ==
    IF idxs = <<>> THEN <<>>
    ELSE ClassCommand(idxs[1], plugin_classes[idxs[1]].command) \o CommandsOf(Tail(idxs))

\* The end of load_all_plugins: detect_event_hooks(core=...), which appends
\* the hooks of every plugin of the table and of the core, registers the
\* commands of every plugin, and sorts each chain
detect_hooks ==
    /\ pc = "boot"
    /\ plugins.next > Len(plugin_classes)
    /\ LET loaded == LoadedFrom(1)
           hooks == [k \in 1..Len(loaded) |->
                        [event |-> plugin_classes[loaded[k]].event,
                         priority |-> plugin_classes[loaded[k]].priority]]
       IN  /\ plugin_hooks' = hooks
           /\ event_hooks' = detect_event_hooks(event_hooks, hooks)
           /\ commands' = register_plugin(commands, CommandsOf(loaded))
    /\ pc' = "idle"
    /\ UNCHANGED <<wire, packet, idx, send_ahead, invoked, returned, cmd_result, server_out,
                   client_out, task, alive>>
    /\ UNCHANGED <<cacheVars, relayVars, codec, registered, plugin_classes, plugins, pk, sendVars>>

InitLoader ==
    /\ Constructed
    /\ NoSends
    /\ plugin_classes \in PluginClassLists
    /\ plugins = [next |-> 1, table |-> <<>>]
    /\ codec = <<>>
    /\ registered = <<>>
    /\ pk = <<>>

NextLoader ==
    \/ load_plugin
    \/ detect_hooks

SpecLoader == InitLoader /\ [][NextLoader]_vars

(***************************************************************************)
(* Properties of the loader (SpecLoader).                                  *)
(***************************************************************************)
\* C30: once loading is over, a plugin class that declares a dependency on
\* a name that is not in the plugin table is not in the table itself, no
\* hook chain holds its hook, and no entry of the command table is one of
\* its commands.
C30_MissingDependencyDropped ==
    pc = "idle" =>
        \A i \in 1..Len(plugin_classes) :
            ~(plugin_classes[i].depends \subseteq DOMAIN plugins.table) =>
                /\ PluginNames[i] \notin DOMAIN plugins.table
                /\ \A e \in PacketTypes : \A j \in 1..Len(event_hooks[e]) :
                      ~(event_hooks[e][j].owner = "plugin"
                        /\ event_hooks[e][j].name = PluginNames[i])
                /\ \A c \in DOMAIN commands : commands[c].owner # PluginNames[i]

ReturnedValues == {returned[i] : i \in {j \in 1..Len(returned) : returned[j] # "raise"}}

EditsRaised(t) ==
    /\ relay[t].pc = "ended"
    /\ relay[t].caught = "NotImplementedError"
    /\ relay[t].during = "dispatch"

\* C35: when pending edits on a type without an encoder make hook_event
\* raise in a listener, the frame is not written to the peer and the whole
\* session is torn down: the other listener is over or cancelled and die
\* has run, whichever listener read the frame.
C35_UnbuildableEditsTearDown ==
    \A t \in Tasks :
        EditsRaised(t) =>
            /\ \A i \in 1..Len(writes[Opposite(t)]) :
                  ~(writes[Opposite(t)][i].by = t
                    /\ writes[Opposite(t)][i].n = Len(readlog[t]))
            /\ \A u \in Tasks \ {t} : relay[u].pc = "ended" \/ relay[u].cancelled
            /\ teardown.die = 1

(***************************************************************************)
(* The counts of the cache entries between reaper passes.                  *)
(***************************************************************************)
\* The slot s looks its frame up in the cache and finds it
CacheHit(s) ==
    /\ msg[s].pc = "hook_event"
    /\ msg'[s].pc = "hooks"
    /\ msg[s].original_data \in DOMAIN cache

\* C37: between reaper passes every entry of the cache has a count of at
\* least 1, so no pass leaves an entry with count <= 0 behind, and a lookup
\* that finds an entry gets it: the entry is still there afterwards, used
\* once more, and the packet has its parsed data.
C37_CountsPositive ==
    /\ [](\A k \in DOMAIN cache : cache[k].count >= 1)
    /\ [][\A s \in Slots :
            CacheHit(s) =>
                /\ msg[s].original_data \in DOMAIN cache'
                /\ cache'[msg[s].original_data].count = cache[msg[s].original_data].count + 1
                /\ msg'[s].parsed_data \in DOMAIN heap']_vars

\* C37 witness: an entry that was hit, went through a pass and was hit
\* again afterwards by a packet now in its handlers.
C37_Witness ==
    \E k \in DOMAIN cache, s \in Slots :
       /\ passes[k] = 1
       /\ hits[k] = 2
       /\ cache[k].count = 2
       /\ msg[s].pc = "hooks"
       /\ msg[s].original_data = k

(***************************************************************************)
(* Plugins coming and going (SpecDeregister): register_plugin and          *)
(* deregister_plugin on the command table. Each plugin declares one        *)
(* @Command method; plugin_classes holds what each declared, registered    *)
(* the calls made.                                                         *)
(***************************************************************************)
\* 'del self.commands[name]'
dict_del(table, name) == [k \in DOMAIN table \ {name} |-> table[k]]

\* The body of CommandDispatcher.deregister before the aliases
deregister_name(table, fn, name) ==
    IF name \in DOMAIN table
    THEN IF fn = table[name] THEN dict_del(table, name) ELSE table
    ELSE table

\* 'for alias in fn.aliases: self.deregister(fn, alias, is_alias=True)':
\* the alias is looked up as declared
RECURSIVE deregister_aliases(_, _, _)
deregister_aliases(table, fn, aliases) ==
    IF aliases = <<>> THEN table
    ELSE deregister_aliases(deregister_name(table, fn, aliases[1]), fn, Tail(aliases))

\* CommandDispatcher.deregister
deregister(table, fn, name, is_alias) ==
    LET t1 == deregister_name(table, fn, name)
    IN  IF ~is_alias THEN deregister_aliases(t1, fn, fn.aliases) ELSE t1

\* CommandDispatcher.deregister_plugin
RECURSIVE deregister_plugin(_, _)
deregister_plugin(table, mths) ==
    IF mths = <<>> THEN table
    ELSE deregister_plugin(deregister(table, mths[1], lower(mths[1].name), FALSE),
                           Tail(mths))

\* The plugins that come and go
Owners == {"plugin_1", "plugin_2"}

\* The @Command method a plugin may declare: its name in either case, no
\* alias or one, in either case
DeclaredFns(o) ==
    {[name |-> n, aliases |-> al, syntax |-> "", perms |-> {}, priority |-> p, owner |-> o] :
        n \in {<<"a">>, <<"A">>, <<"b">>},
        al \in {<<>>, << <<"a">> >>, << <<"A">> >>, << <<"b">> >>},
        p \in {0, 1}}

\* The spellings under which the methods may be looked for: as declared and
\* lower-cased
Spellings(mths) ==
    UNION {{mths[i].name, lower(mths[i].name)}
           \cup {mths[i].aliases[j] : j \in 1..Len(mths[i].aliases)}
           \cup {lower(mths[i].aliases[j]) : j \in 1..Len(mths[i].aliases)} :
           i \in 1..Len(mths)}

\* PluginManager activating a plugin: register_plugin(plugin)
register_plugin_call ==
    /\ registered.count < MaxPluginCalls
    /\ \E o \in Owners :
          /\ commands' = register_plugin(commands, plugin_classes[o])
          /\ registered' = [count |-> registered.count + 1, op |-> "register", plugin |-> o,
                            log |-> Append(registered.log, "register"),
                            before |-> commands,
                            fresh |-> Spellings(plugin_classes[o]) \cap DOMAIN commands = {}]
    /\ UNCHANGED <<plugin_hooks, event_hooks, pc, wire, packet, idx, send_ahead, invoked,
                   returned, cmd_result, server_out, client_out, task, alive>>
    /\ UNCHANGED <<cacheVars, relayVars, codec, plugin_classes, plugins, pk, sendVars>>

\* PluginManager deactivating a plugin: deregister_plugin(plugin). The
\* table of before the call is kept when the call undoes the registration
\* made just before.
deregister_plugin_call ==
    /\ registered.count < MaxPluginCalls
    /\ \E o \in Owners :
          /\ commands' = deregister_plugin(commands, plugin_classes[o])
          /\ registered' =
                IF registered.op = "register" /\ registered.plugin = o
                THEN [registered EXCEPT !.count = @ + 1, !.op = "round_trip",
                                        !.log = Append(@, "deregister")]
                ELSE [count |-> registered.count + 1, op |-> "deregister", plugin |-> o,
                      log |-> Append(registered.log, "deregister"),
                      before |-> commands, fresh |-> FALSE]
    /\ UNCHANGED <<plugin_hooks, event_hooks, pc, wire, packet, idx, send_ahead, invoked,
                   returned, cmd_result, server_out, client_out, task, alive>>
    /\ UNCHANGED <<cacheVars, relayVars, codec, plugin_classes, plugins, pk, sendVars>>

InitDeregister ==
    /\ Constructed
    /\ NoSends
    /\ plugin_classes \in [Owners -> UNION {{<<fn>> : fn \in DeclaredFns(o)} : o \in Owners}]
    /\ \A o \in Owners : plugin_classes[o][1].owner = o
    /\ registered = [count |-> 0, op |-> "none", plugin |-> "", log |-> <<>>,
                     before |-> <<>>, fresh |-> FALSE]
    /\ codec = <<>>
    /\ plugins = <<>>
    /\ pk = <<>>

NextDeregister ==
    \/ register_plugin_call
    \/ deregister_plugin_call

SpecDeregister == InitDeregister /\ [][NextDeregister]_vars

\* C38: when none of a plugin's names and aliases, in any spelling, is in
\* the command table, register_plugin followed by deregister_plugin of that
\* plugin leaves the table as it was before.
C38_RegisterDeregisterRestores ==
    (registered.op = "round_trip" /\ registered.fresh) => commands = registered.before

\* The handler answers to the key: its lower-cased name or one of its
\* lower-cased aliases is the key
AnswersTo(fn, key) ==
    \/ lower(fn.name) = key
    \/ \E j \in 1..Len(fn.aliases) : lower(fn.aliases[j]) = key

\* C39: after any sequence of register_plugin and deregister_plugin calls
\* every key of the command table is lower-case and maps to a handler that
\* answers to it.
C39_KeysLowerAndOwned ==
    \A key \in DOMAIN commands :
        /\ key = lower(key)
        /\ AnswersTo(commands[key], key)

\* C39 witness: after a registration, a deregistration that removed an
\* entry and a further registration, the table holds a command under the
\* lower-case spelling of an alias declared in upper case.
C39_Witness ==
    /\ registered.log = <<"register", "deregister", "register">>
    /\ registered.before = <<>>
    /\ \E key \in DOMAIN commands :
          /\ lower(commands[key].name) # key
          /\ commands[key].aliases # <<>>
          /\ commands[key].aliases[1] # key
          /\ lower(commands[key].aliases[1]) = key

(***************************************************************************)
(* Client.send_message (SpecSend): one call with its arguments; for each   *)
(* message the CHAT_RECEIVED packet is built from the parsed data and      *)
(* written to the client's StreamWriter. transport holds, per socket, the  *)
(* data of the write calls in order and how many of them have left.        *)
(***************************************************************************)
\* No write made on any socket
NoWrites == [k \in Sockets |-> [wrote |-> <<>>, sent |-> 0]]

\* StreamWriter.write(data) on the socket k, by the task `by`
stream_write(tr, k, by, data) ==
    [tr EXCEPT ![k].wrote = writer_write(@, [by |-> by, data |-> data])]

\* The chat texts sent: none, "hi", and one with a two-byte character
SendTexts == {<<>>, <<104, 105>>, <<233>>}

\* The arguments of a send_message call: one message or more, each of the
\* ChatReceiveMode values, a channel, a name, a client id
SendArgs ==
    [messages : UNION {[1..n -> {Py("str", t) : t \in SendTexts}] : n \in 1..MaxMessages},
     mode : {Py("int", m) : m \in 0..6},
     channel : {Py("str", <<>>), Py("str", <<97>>)},
     name : {Py("str", <<>>), Py("str", <<98>>)},
     client_id : {Py("int", 0), Py("int", 1), Py("int", 65535)}]

\* packet_data of send_message for one message
packet_data(args, message) ==
    [message |-> message,
     name |-> args.name,
     junk |-> Py("int", 0),
     header |-> [mode |-> args.mode, channel |-> args.channel, client_id |-> args.client_id]]

\* Packet.from_parsed(packet_type, parsed_data, direction):
\* cls(packet_type, b"", direction, parsed_data=parsed_data).build()
from_parsed(packet_type, parsed_data, direction) ==
    Packet_build(BytePacket(packet_type, <<>>, direction, <<>>, FALSE, <<>>), parsed_data)

\* The body of send_message for the message in turn, up to the await of
\* drain: the packet is built and handed to write_to_client; an exception
\* is logged by 'except Exception' and the call goes on to the next message
send_message_write ==
    /\ sending.pc = "build"
    /\ LET r == from_parsed(CHAT_RECEIVED, packet_data(sending.args, sending.args.messages[sending.i]),
                            "TO_CLIENT")
       IN  IF r.raised # ""
           THEN /\ sending' = [sending EXCEPT
                                  !.logged = Append(@, r.raised),
                                  !.i = @ + 1,
                                  !.pc = IF sending.i < Len(sending.args.messages)
                                         THEN "build" ELSE "done"]
                /\ UNCHANGED transport
           ELSE /\ transport' = stream_write(transport, "client", "send_message",
                                             r.packet.original_data)
                /\ sending' = [sending EXCEPT !.pc = "drain"]
    /\ UNCHANGED <<dispatchVars, cacheVars, relayVars, codec, registered, plugin_classes,
                   plugins, pk, writers>>

\* 'await self._writer.drain()' returns; then the recursive call for the
\* next of *messages, if any
send_message_drained ==
    /\ sending.pc = "drain"
    /\ sending' = [sending EXCEPT !.i = @ + 1,
                                  !.pc = IF sending.i < Len(sending.args.messages)
                                         THEN "build" ELSE "done"]
    /\ UNCHANGED <<dispatchVars, cacheVars, relayVars, codec, registered, plugin_classes,
                   plugins, pk, writers, transport>>

InitSend ==
    /\ Booted
    /\ codec = <<>>
    /\ registered = <<>>
    /\ plugin_classes = <<>>
    /\ plugins = <<>>
    /\ pk = <<>>
    /\ writers = <<>>
    /\ sending \in [args : SendArgs, i : {1}, pc : {"build"}, logged : {<<>>}]
    /\ transport = NoWrites

NextSend ==
    \/ send_message_write
    \/ send_message_drained

SpecSend == InitSend /\ [][NextSend]_vars

\* What the client reads from the i-th write on its socket
ClientReads(i) ==
    LET r == read_packet_from(transport["client"].wrote[i].data, "TO_CLIENT")
    IN  [raised |-> r.raised, rest |-> r.rest, type |-> r.packet.type,
         parsed |-> parse_funcs_0(r.packet.type, r.packet.data, "TO_CLIENT")]

\* The i-th write is one CHAT_RECEIVED frame that carries the i-th message
\* and the header of the call
CarriesMessage(i) ==
    LET c == ClientReads(i) IN
    /\ c.raised = ""
    /\ c.rest = <<>>
    /\ c.type = CHAT_RECEIVED
    /\ c.parsed.err = ""
    /\ c.parsed.val.message = sending.args.messages[i]
    /\ c.parsed.val.name = sending.args.name
    /\ c.parsed.val.header.mode = sending.args.mode
    /\ c.parsed.val.header.channel = sending.args.channel
    /\ c.parsed.val.header.client_id = sending.args.client_id

\* C31: for every mode, channel, name and client id, a send_message call
\* that is over has written to the client socket one CHAT_RECEIVED frame
\* per message, in argument order, each carrying its text and the header.
C31_OneFramePerMessage ==
    sending.pc = "done" =>
        /\ Len(transport["client"].wrote) = Len(sending.args.messages)
        /\ \A i \in 1..Len(transport["client"].wrote) : CarriesMessage(i)

(***************************************************************************)
(* Writers of the two sockets of a session (SpecWrite). Each of            *)
(* write_to_server_raw and write_to_client_raw is 'writer.write(data);     *)
(* await writer.drain()': write appends to the transport's buffer without  *)
(* suspending, drain is where the task may be suspended and another task   *)
(* runs. The tasks that write: the two listeners, relaying or inside a     *)
(* handler (send_message, write_to_client, write_to_server), and a task of *)
(* another session whose handler writes to this one.                       *)
(***************************************************************************)
WriteTasks == {"server_listener", "client_listener", "other_session"}

\* The frames written: an uncompressed step update and a compressed chat line
WriteFrames == {compose("STEP_UPDATE", <<5>>, FALSE), compose("CHAT_SENT", <<1, 97, 0>>, TRUE)}

\* A writer that hands the frame over in two write calls, draining after each
write_calls_halved(data) ==
    <<SubSeq(data, 1, Len(data) \div 2), SubSeq(data, (Len(data) \div 2) + 1, Len(data))>>

\* The write calls write_to_server_raw and write_to_client_raw make for a
\* frame: one, with all its bytes
write_calls(data) == <<data>>

\* A task that is not writing
IdleWriter == [pc |-> "idle", sock |-> "client", pending |-> <<>>]

\* The frames handed to write_to_*_raw so far, on both sockets
WritesMade == Len(writers.calls["upstream"]) + Len(writers.calls["client"])

\* write_to_server_raw / write_to_client_raw up to the await: the task t
\* calls it with a frame for a socket; the bytes are in the buffer when it
\* reaches drain
w_write(t) ==
    /\ writers.task[t].pc = "idle"
    /\ WritesMade < MaxWrites
    /\ \E k \in Sockets, data \in WriteFrames :
          /\ transport' = stream_write(transport, k, t, write_calls(data)[1])
          /\ writers' = [writers EXCEPT
                            !.task[t] = [pc |-> "drain", sock |-> k,
                                         pending |-> Tail(write_calls(data))],
                            !.calls[k] = Append(@, data)]
    /\ UNCHANGED <<dispatchVars, cacheVars, relayVars, codec, registered, plugin_classes,
                   plugins, pk, sending>>

\* 'await writer.drain()' returns to the task t: it writes what is left of
\* its frame, if anything, and drains again; else the call is over
w_drained(t) ==
    /\ writers.task[t].pc = "drain"
    /\ IF writers.task[t].pending # <<>>
       THEN /\ transport' = stream_write(transport, writers.task[t].sock, t,
                                         Head(writers.task[t].pending))
            /\ writers' = [writers EXCEPT !.task[t].pending = Tail(@)]
       ELSE /\ writers' = [writers EXCEPT !.task[t] = IdleWriter]
            /\ UNCHANGED transport
    /\ UNCHANGED <<dispatchVars, cacheVars, relayVars, codec, registered, plugin_classes,
                   plugins, pk, sending>>

\* The transport sends the oldest data of its buffer to the peer.
transport_send(k) ==
    /\ transport[k].sent < Len(transport[k].wrote)
    /\ transport' = [transport EXCEPT ![k].sent = @ + 1]
    /\ UNCHANGED <<dispatchVars, cacheVars, relayVars, codec, registered, plugin_classes,
                   plugins, pk, sending, writers>>

InitWrite ==
    /\ Booted
    /\ codec = <<>>
    /\ registered = <<>>
    /\ plugin_classes = <<>>
    /\ plugins = <<>>
    /\ pk = <<>>
    /\ sending = <<>>
    /\ writers = [task |-> [t \in WriteTasks |-> IdleWriter],
                  calls |-> [k \in Sockets |-> <<>>]]
    /\ transport = NoWrites

NextWrite ==
    \/ \E t \in WriteTasks : w_write(t)
    \/ \E t \in WriteTasks : w_drained(t)
    \/ \E k \in Sockets : transport_send(k)

SpecWrite == InitWrite /\ [][NextWrite]_vars

\* Byte strings one behind the other
RECURSIVE Joined(_)
Joined(seqs) == IF seqs = <<>> THEN <<>> ELSE Head(seqs) \o Joined(Tail(seqs))

\* The bytes of the first n write calls on the socket k
SocketBytes(k, n) == Joined([i \in 1..n |-> transport[k].wrote[i].data])

IsPrefixOf(a, b) == Len(a) <= Len(b) /\ a = SubSeq(b, 1, Len(a))

\* C36: the bytes on each socket are the frames written to it one behind
\* the other, each one whole, whichever task wrote it and whichever tasks
\* were suspended in a write meanwhile: the bytes of two frames are never
\* interleaved, in the buffer or in what the peer has received.
C36_FramesContiguous ==
    \A k \in Sockets :
        /\ IsPrefixOf(SocketBytes(k, Len(transport[k].wrote)), Joined(writers.calls[k]))
        /\ IsPrefixOf(SocketBytes(k, transport[k].sent), Joined(writers.calls[k]))
        /\ (\A t \in WriteTasks : writers.task[t].sock = k => writers.task[t].pending = <<>>)
              => SocketBytes(k, Len(transport[k].wrote)) = Joined(writers.calls[k])

\* C36 witness: all three tasks are suspended in the drain of a write to
\* the client socket, each having written a frame of its own while the
\* others were suspended, and the first frame has left.
C36_Witness ==
    /\ \A t \in WriteTasks : writers.task[t].pc = "drain" /\ writers.task[t].sock = "client"
    /\ Len(transport["client"].wrote) = 3
    /\ {transport["client"].wrote[i].by : i \in 1..3} = WriteTasks
    /\ transport["client"].wrote[1].data # transport["client"].wrote[2].data
    /\ transport["client"].sent = 1

(***************************************************************************)
(* parse_packet and its cache on the bytes of the frames (SpecParse):      *)
(* packets of either direction are parsed one after the other, the reaper  *)
(* passing in between. codec holds the last packet parsed and what         *)
(* parse_packet left in it. No handler runs, so no parsed value is         *)
(* changed after it was cached.                                            *)
(***************************************************************************)
\* Packet.__hash__: hash(self.original_data). Equal bytes hash alike;
\* different bytes are taken to hash differently.
Packet_hash(p) == p.original_data

\* The end of parse_packet's try for what the decoder gave: an IndexError
\* leaves {} and no entry, any other exception leaves parse_packet with the
\* {} of Packet.__init__, else the value is cached and delivered
parse_result(c, packet_hash, r) ==
    IF r.err = "IndexError"
    THEN [cache |-> c, parsed_data |-> <<>>, raised |-> "", hit |-> FALSE]
    ELSE IF r.err # ""
    THEN [cache |-> c, parsed_data |-> <<>>, raised |-> r.err, hit |-> FALSE]
    ELSE [cache |-> (packet_hash :> CachedPacket(r.val)) @@ c, parsed_data |-> r.val,
          raised |-> "", hit |-> FALSE]

\* parser.parse_packet with the cache c; the copy that get() returns has
\* the value of the cached dict
parse_packet(c, p) ==
    IF parse_map(p.type) = "none"
    THEN [cache |-> c, parsed_data |-> <<>>, raised |-> "", hit |-> FALSE]
    ELSE IF Packet_hash(p) \in DOMAIN c
    THEN [cache |-> [c EXCEPT ![Packet_hash(p)] = get(@)],
          parsed_data |-> c[Packet_hash(p)].ref, raised |-> "", hit |-> TRUE]
    ELSE parse_result(c, Packet_hash(p), parse_funcs_0(p.type, p.data, p.direction))

\* The frames read: context updates whose body reads differently in the
\* two directions, one of them compressed as well, a chat line, and a type
\* without an entry in parse_map
ParseFrames ==
    {<<CLIENT_CONTEXT_UPDATE>> \o build_signed_vlq(2) \o <<1, 0>>,
     <<CLIENT_CONTEXT_UPDATE>> \o build_signed_vlq(5) \o <<4, 3, 1, 3, 1>>,
     <<CLIENT_CONTEXT_UPDATE>> \o build_signed_vlq(-Len(compress(<<1, 0>>))) \o compress(<<1, 0>>),
     <<CHAT_SENT>> \o build_signed_vlq(4) \o <<2, 104, 105, 0>>,
     <<PAUSE>> \o build_signed_vlq(1) \o <<1>>}

\* 'packet = await packet.parse()' of hook_event, for a packet a listener
\* has read in its direction
packet_parse ==
    /\ nread < MaxParses
    /\ nread' = nread + 1
    /\ \E frame \in ParseFrames, direction \in Directions :
          LET p == read_packet_from(frame, direction).packet
              r == parse_packet(cache, p)
          IN  /\ cache' = r.cache
              /\ codec' = [pc |-> "parsed", packet |-> p, parsed_data |-> r.parsed_data,
                           raised |-> r.raised, hit |-> r.hit]
    /\ UNCHANGED <<dispatchVars, relayVars, heap, msg, hits, passes, reaper_task,
                   registered, plugin_classes, plugins, pk, sendVars>>

\* One pass of reap_packets, the task that hook_event creates at the first
\* parse
reap_pass ==
    /\ nread > 0
    /\ DOMAIN cache # {}
    /\ LET checked == [k \in DOMAIN cache |-> reap_check(cache[k])]
           kept == {k \in DOMAIN cache : ~checked[k].reap}
       IN  cache' = [k \in kept |-> checked[k].entry]
    /\ codec' = [codec EXCEPT !.pc = "reaped"]
    /\ UNCHANGED <<dispatchVars, relayVars, heap, msg, hits, passes, nread, reaper_task,
                   registered, plugin_classes, plugins, pk, sendVars>>

InitParse ==
    /\ Booted
    /\ NoSends
    /\ registered = <<>>
    /\ plugin_classes = <<>>
    /\ plugins = <<>>
    /\ pk = <<>>
    /\ codec = [pc |-> "idle", packet |-> NoBytePacket, parsed_data |-> <<>>,
                raised |-> "", hit |-> FALSE]

NextParse ==
    \/ packet_parse
    \/ reap_pass

SpecParse == InitParse /\ [][NextParse]_vars

\* C33: what parse_packet delivers through the cache is what it delivers
\* without one, the decode of the packet's own body in the packet's own
\* direction: so for a to-client and a to-server CLIENT_CONTEXT_UPDATE of
\* the same bytes alike; and a hit is for the bytes that made the entry.
C33_CacheIsTransparent ==
    codec.pc = "parsed" =>
        /\ codec.parsed_data = parse_packet(<<>>, codec.packet).parsed_data
        /\ codec.raised = parse_packet(<<>>, codec.packet).raised
        /\ codec.hit => Packet_hash(codec.packet) \in DOMAIN cache

=============================================================================
